---------------------------- MODULE Spec2Model ----------------------------
(***************************************************************************)
(* A model of the script segmenter and the speech rewriter of the CloneIA  *)
(* text module (src/core/text.py).                                         *)
(*                                                                         *)
(* Text is a sequence of one-character strings, so that stripping,         *)
(* splitting, joining and the regular-expression rewrites are computed     *)
(* character by character, as the Python code computes them.               *)
(***************************************************************************)
EXTENDS Integers, Sequences, FiniteSets, TLC

VARIABLES
  script,           \* the argument of the call (script_content / text)
  call,             \* which method of TextProcessor is called
  pc,               \* position of the call: "start", "walk", "done", "raised"
  lines,            \* parse_script: lines
  i,                \* parse_script: index of the next element of lines in the for loop
  current_section,  \* parse_script: current_section
  current_news,     \* parse_script: current_news (None or a dict)
  news_items,       \* parse_script: news_items
  intro_lines,      \* parse_script: intro_lines
  outro_lines,      \* parse_script: outro_lines
  src,              \* history: for every stored line, its index in lines
  result,           \* the value returned by the call
  self,             \* the rule tables of the TextProcessor object
  threads,          \* the calls of the rewriter in progress, with their locals
  _RECOMMENDATION_CACHE,   \* backend/app/core/cache.py: user_id -> entry
  _LEGAL_REFERENCE_CACHE,  \* backend/app/core/cache.py: cache_key -> entry
  time,             \* the reading of time.time(), in seconds
  written,          \* history: for every user, the last write or clear of the cache
  files,            \* the text files written: path -> content
  audio             \* history: the calls AudioGenerator.generate_audio received

\* the state outside the TextProcessor: the caches of the backend, the clock,
\* the files and the audio generator
outside == <<_RECOMMENDATION_CACHE, _LEGAL_REFERENCE_CACHE, time, written, files, audio>>

vars == <<script, call, pc, lines, i, current_section, current_news,
          news_items, intro_lines, outro_lines, src, result, self, threads,
          outside>>

-----------------------------------------------------------------------------
(* Bounds of the model.                                                    *)

\* the scripts of the model have at most MaxLines lines
MaxLines == 6

\* the punctuation texts of the model have at most MaxChars characters
MaxChars == 4

\* the texts made of words have at most MaxWords words
MaxWords == 3

\* the scripts with malformed numbered lines have at most MaxItemLines lines
MaxItemLines == 5

\* the number of calls in progress on one TextProcessor
Callers == 2

-----------------------------------------------------------------------------
(* Characters.                                                             *)

None == <<>>

\* None passed where a text is expected: a value that is no string of characters
NoText == <<"None">>

\* `text is None`: only None is tested
Falsy_NoneOnly(text) == text = NoText

\* `not text`: None and the empty string are false
Falsy(text) == text = NoText \/ text = <<>>

Digit == {"0", "1", "2", "3", "4", "5", "6", "7", "8", "9"}

\* the characters str.strip() removes and \s matches
Whitespace == {" ", "\n", "\t", "\r"}

LowerChars == <<"a", "b", "c", "d", "e", "f", "g", "h", "i", "j", "k", "l", "m", "n", "o", "p", "q", "r", "s", "t", "u", "v", "w", "x", "y", "z", "á", "â", "ã", "é", "ê", "í", "ó", "ô">>

UpperChars == <<"A", "B", "C", "D", "E", "F", "G", "H", "I", "J", "K", "L", "M", "N", "O", "P", "Q", "R", "S", "T", "U", "V", "W", "X", "Y", "Z", "Á", "Â", "Ã", "É", "Ê", "Í", "Ó", "Ô">>

LowerSet == {LowerChars[k] : k \in 1..Len(LowerChars)}

UpperSet == {UpperChars[k] : k \in 1..Len(UpperChars)}

LowerOf == [c \in UpperSet |-> LowerChars[CHOOSE k \in 1..Len(UpperChars) : UpperChars[k] = c]]

UpperOf == [c \in LowerSet |-> UpperChars[CHOOSE k \in 1..Len(LowerChars) : LowerChars[k] = c]]

\* str.lower() and str.upper() on one character
LowerChar(c) == IF c \in UpperSet THEN LowerOf[c] ELSE c

UpperChar(c) == IF c \in LowerSet THEN UpperOf[c] ELSE c

\* word.upper()
Upper(s) == [k \in 1..Len(s) |-> UpperChar(s[k])]

\* the characters \w matches (so \b is a change of IsWordChar)
IsWordChar(c) == c \in LowerSet \/ c \in UpperSet \/ c \in Digit \/ c = "_"

\* two characters are equal, or equal up to case under re.IGNORECASE
SameChar(a, b, ignorecase) == IF ignorecase THEN LowerChar(a) = LowerChar(b) ELSE a = b

-----------------------------------------------------------------------------
(* Regular expressions.  A pattern is a sequence of tokens:                *)
(*   [k |-> "lit", c |-> ch]   the character ch                            *)
(*   [k |-> "set", cs |-> S]   one character of the set S   ([...], \d)    *)
(*   [k |-> "set+", cs |-> S]  one or more characters of S  (\s+, \d+)     *)
(*   [k |-> "dots"]            three or more periods        (\.{3,})       *)
(*   [k |-> "wb"]              a word boundary              (\b)           *)
(* Every pattern of the program is such that a greedy run is followed by a *)
(* token that cannot match a character of the run, so the greedy match     *)
(* needs no backtracking.                                                   *)

Lit(ch) == [k |-> "lit", c |-> ch, cs |-> {}]

OneOf(S) == [k |-> "set", c |-> "", cs |-> S]

Many(S) == [k |-> "set+", c |-> "", cs |-> S]

Dots == [k |-> "dots", c |-> "", cs |-> {}]

WordBoundary == [k |-> "wb", c |-> "", cs |-> {}]

\* the pattern matching the characters of word, one after the other
Word(word) == [k \in 1..Len(word) |-> Lit(word[k])]

\* the index after the longest run of characters of S that starts at index j of s
RECURSIVE RunEnd(_, _, _)
RunEnd(s, j, S) == IF j <= Len(s) /\ s[j] \in S THEN RunEnd(s, j + 1, S) ELSE j

\* index j of s is at a word boundary (\b)
AtBoundary(s, j) ==
  LET before == j > 1 /\ j - 1 <= Len(s) /\ IsWordChar(s[j - 1])
      after  == j >= 1 /\ j <= Len(s) /\ IsWordChar(s[j])
  IN  before # after

\* the tokens n.. of pattern p match s from index j: the index after the
\* match, or 0 when there is no match
RECURSIVE MatchFrom(_, _, _, _, _)
MatchFrom(p, n, s, j, ignorecase) ==
  IF n > Len(p) THEN j
  ELSE LET tok == p[n] IN
    CASE tok.k = "lit" ->
           IF j <= Len(s) /\ SameChar(s[j], tok.c, ignorecase)
           THEN MatchFrom(p, n + 1, s, j + 1, ignorecase) ELSE 0
      [] tok.k = "set" ->
           IF j <= Len(s) /\ s[j] \in tok.cs
           THEN MatchFrom(p, n + 1, s, j + 1, ignorecase) ELSE 0
      [] tok.k = "set+" ->
           IF j <= Len(s) /\ s[j] \in tok.cs
           THEN MatchFrom(p, n + 1, s, RunEnd(s, j, tok.cs), ignorecase) ELSE 0
      [] tok.k = "dots" ->
           IF RunEnd(s, j, {"."}) - j >= 3
           THEN MatchFrom(p, n + 1, s, RunEnd(s, j, {"."}), ignorecase) ELSE 0
      [] tok.k = "wb" ->
           IF AtBoundary(s, j) THEN MatchFrom(p, n + 1, s, j, ignorecase) ELSE 0

\* re.match(p, s): the pattern matches at the start of s
ReMatch(p, s) == MatchFrom(p, 1, s, 1, FALSE) # 0

\* s[a..b] (empty when b < a)
Slice(s, a, b) == IF b < a THEN <<>> ELSE SubSeq(s, a, b)

\* re.sub(p, repl, s): left to right, every non-overlapping match of p is
\* replaced by repl and the scan goes on after the match
RECURSIVE SubFrom(_, _, _, _, _)
SubFrom(p, repl, s, j, ignorecase) ==
  LET starts == {k \in j..Len(s) : MatchFrom(p, 1, s, k, ignorecase) > k} IN
  IF starts = {} THEN Slice(s, j, Len(s))
  ELSE LET k == CHOOSE x \in starts : \A y \in starts : x <= y
       IN  Slice(s, j, k - 1) \o repl
             \o SubFrom(p, repl, s, MatchFrom(p, 1, s, k, ignorecase), ignorecase)

\* the characters of s, in lower case under re.IGNORECASE
CharsOf(s, ignorecase) ==
  {IF ignorecase THEN LowerChar(s[j]) ELSE s[j] : j \in 1..Len(s)}

\* a match holds a character for every token of the pattern that consumes
\* one, so a text that lacks the character of such a token has no match
CanMatch(p, s, ignorecase) ==
  LET chars == CharsOf(s, ignorecase) IN
  \A n \in 1..Len(p) :
    CASE p[n].k = "lit" -> (IF ignorecase THEN LowerChar(p[n].c) ELSE p[n].c) \in chars
      [] p[n].k \in {"set", "set+"} -> p[n].cs \cap chars # {}
      [] p[n].k = "dots" -> "." \in chars
      [] p[n].k = "wb" -> TRUE

\* re.sub(p, repl, s, flags): a text without a match is returned as it is
ReSub(p, repl, s, ignorecase) ==
  IF CanMatch(p, s, ignorecase) THEN SubFrom(p, repl, s, 1, ignorecase) ELSE s

\* re.sub(r'(\d),(\d)', r'\1\2', s): a match keeps its two digits; the scan
\* goes on after the second digit, which is therefore not the first digit of
\* a next match
RECURSIVE DigitCommaFrom(_, _)
DigitCommaFrom(s, j) ==
  LET starts == {k \in j..Len(s) :
                   MatchFrom(<<OneOf(Digit), Lit(","), OneOf(Digit)>>, 1, s, k, FALSE) # 0}
  IN  IF starts = {} THEN Slice(s, j, Len(s))
      ELSE LET k == CHOOSE x \in starts : \A y \in starts : x <= y
           IN  Slice(s, j, k - 1) \o <<s[k], s[k + 2]>> \o DigitCommaFrom(s, k + 3)

-----------------------------------------------------------------------------
(* The rule tables of TextProcessor.__init__.                              *)

WS == Many(Whitespace)

\* the attributes __init__ sets: crypto_terms as <<term, pronunciation>> in the
\* order of the dict, emphasis_words, greeting_patterns as <<pattern, replacement>>
NewTextProcessor ==
  [ crypto_terms |->
      << <<<<"B", "i", "t", "c", "o", "i", "n">>, <<"B", "i", "t", "c", "o", "i", "m">>>>,
         <<<<"E", "t", "h", "e", "r", "e", "u", "m">>, <<"E", "t", "h", "e", "r", "i", "u", "m">>>>,
         <<<<"C", "a", "r", "d", "a", "n", "o">>, <<"C", "a", "r", "d", "â", "n", "o">>>>,
         <<<<"S", "o", "l", "a", "n", "a">>, <<"S", "o", "l", "â", "n", "a">>>>,
         <<<<"P", "o", "l", "k", "a", "d", "o", "t">>, <<"P", "o", "l", "c", "a", "d", "o", "t">>>>,
         <<<<"B", "i", "n", "a", "n", "c", "e">>, <<"B", "i", "n", "á", "n", "s">>>>,
         <<<<"C", "o", "i", "n", "b", "a", "s", "e">>, <<"C", "ó", "i", "n", "b", "e", "i", "s">>>>,
         <<<<"N", "F", "T">>, <<"Ê", "n", "Ê", "f", "e", "T", "ê">>>>,
         <<<<"D", "e", "F", "i">>, <<"D", "ê", "F", "a", "i">>>>,
         <<<<"s", "t", "a", "k", "i", "n", "g">>, <<"s", "t", "ê", "i", "k", "i", "n", "g">>>>,
         <<<<"b", "l", "o", "c", "k", "c", "h", "a", "i", "n">>, <<"b", "l", "ó", "k", "c", "h", "e", "i", "m">>>>,
         <<<<"w", "a", "l", "l", "e", "t">>, <<"w", "ó", "l", "e", "t">>>>,
         <<<<"t", "o", "k", "e", "n">>, <<"t", "ô", "k", "e", "n">>>>,
         <<<<"a", "l", "t", "c", "o", "i", "n">>, <<"ô", "l", "t", "c", "o", "i", "n">>>>,
         <<<<"m", "i", "n", "i", "n", "g">>, <<"m", "á", "i", "n", "i", "n", "g">>>>,
         <<<<"m", "i", "n", "e", "r">>, <<"m", "á", "i", "n", "e", "r">>>> >>,
    emphasis_words |->
      << <<"b", "o", "m", "b", "a", "n", "d", "o">>,
         <<"m", "u", "i", "t", "o">>,
         <<"s", "u", "p", "e", "r">>,
         <<"m", "e", "g", "a">>,
         <<"a", "l", "t", "a">>,
         <<"s", "u", "b", "i", "n", "d", "o">>,
         <<"d", "i", "s", "p", "a", "r", "o", "u">>,
         <<"e", "x", "p", "l", "o", "d", "i", "u">>,
         <<"r", "e", "c", "o", "r", "d", "e">>,
         <<"m", "á", "x", "i", "m", "a">>,
         <<"f", "o", "r", "t", "e">>,
         <<"i", "n", "c", "r", "í", "v", "e", "l">>,
         <<"e", "n", "o", "r", "m", "e">>,
         <<"g", "i", "g", "a", "n", "t", "e">>,
         <<"a", "b", "s", "u", "r", "d", "o">>,
         <<"i", "m", "p", "r", "e", "s", "s", "i", "o", "n", "a", "n", "t", "e">>,
         <<"s", "u", "r", "p", "r", "e", "e", "n", "d", "e", "n", "t", "e">>,
         <<"e", "x", "t", "r", "a", "o", "r", "d", "i", "n", "á", "r", "i", "o">>,
         <<"f", "e", "n", "o", "m", "e", "n", "a", "l">>,
         <<"e", "s", "p", "e", "t", "a", "c", "u", "l", "a", "r">> >>,
    greeting_patterns |->
      << <<Word(<<"e">>) \o <<WS>> \o Word(<<"a", "í">>) \o <<WS>> \o Word(<<"c", "a", "m", "b", "a", "d", "a">>),
           <<"E", "A", "Í", "C", "A", "M", "B", "A", "D", "A">>>>,
         <<Word(<<"f", "a", "l", "a">>) \o <<WS>> \o Word(<<"c", "a", "m", "b", "a", "d", "a">>),
           <<"F", "A", "L", "A", "C", "A", "M", "B", "A", "D", "A">>>>,
         <<Word(<<"e">>) \o <<WS>> \o Word(<<"a", "í">>) \o <<WS>> \o Word(<<"g", "a", "l", "e", "r", "a">>),
           <<"E", "A", "Í", "G", "A", "L", "E", "R", "A">>>>,
         <<Word(<<"f", "a", "l", "a">>) \o <<WS>> \o Word(<<"g", "a", "l", "e", "r", "a">>),
           <<"F", "A", "L", "A", "G", "A", "L", "E", "R", "A">>>> >> ]

\* self.crypto_terms
crypto_terms == self.crypto_terms

\* self.emphasis_words
emphasis_words == self.emphasis_words

\* self.greeting_patterns
greeting_patterns == self.greeting_patterns

\* the conjunctions of the rhythm rules, in the order of the four re.sub calls
rhythm_words ==
  << <<"m", "a", "s">>, <<"e">>, <<"e", "n", "t", "ã", "o">>, <<"p", "o", "r", "é", "m">> >>

-----------------------------------------------------------------------------
(* optimize_for_speech, stage by stage.  A rule table is applied entry by   *)
(* entry, from entry n on; an empty text has no match and stays empty.     *)

\* a greeting is replaced only where it opens the text
RECURSIVE NormalizeGreetings_PrefixOnly(_, _)
NormalizeGreetings_PrefixOnly(t, n) ==
  IF t = <<>> \/ n > Len(greeting_patterns) THEN t
  ELSE LET e == MatchFrom(greeting_patterns[n][1], 1, t, 1, TRUE) IN
       NormalizeGreetings_PrefixOnly(
         IF e = 0 THEN t ELSE greeting_patterns[n][2] \o Slice(t, e, Len(t)), n + 1)

\* for pattern, replacement in self.greeting_patterns: re.sub(..., re.IGNORECASE)
RECURSIVE NormalizeGreetings(_, _)
NormalizeGreetings(t, n) ==
  IF t = <<>> \/ n > Len(greeting_patterns) THEN t
  ELSE NormalizeGreetings(
         ReSub(greeting_patterns[n][1], greeting_patterns[n][2], t, TRUE), n + 1)

\* the six punctuation rewrites, in the order of the code
ThinPunctuation(t) ==
  LET t1 == ReSub(<<OneOf({"!", "?"})>>, <<>>, t, FALSE)
      t2 == ReSub(<<Dots>>, <<>>, t1, FALSE)
      t3 == ReSub(<<OneOf({";", ":"})>>, <<" ">>, t2, FALSE)
      t4 == ReSub(<<Lit(","), WS>>, <<" ">>, t3, FALSE)
      t5 == ReSub(<<Lit("."), WS>>, <<" ">>, t4, FALSE)
  IN  DigitCommaFrom(t5, 1)

\* re.sub(r'\s+w\s+', ' w- ', ..., re.IGNORECASE) for each conjunction w
RECURSIVE InsertRhythm(_, _)
InsertRhythm(t, n) ==
  IF t = <<>> \/ n > Len(rhythm_words) THEN t
  ELSE InsertRhythm(
         ReSub(<<WS>> \o Word(rhythm_words[n]) \o <<WS>>,
               <<" ">> \o rhythm_words[n] \o <<"-", " ">>, t, TRUE), n + 1)

\* the terms are matched with re.IGNORECASE
RECURSIVE SubstituteTerms_IgnoreCase(_, _)
SubstituteTerms_IgnoreCase(t, n) ==
  IF t = <<>> \/ n > Len(crypto_terms) THEN t
  ELSE SubstituteTerms_IgnoreCase(
         ReSub(<<WordBoundary>> \o Word(crypto_terms[n][1]) \o <<WordBoundary>>,
               crypto_terms[n][2], t, TRUE), n + 1)

\* for term, pronunciation in self.crypto_terms.items(): re.sub(r'\bterm\b', ...)
RECURSIVE SubstituteTerms(_, _)
SubstituteTerms(t, n) ==
  IF t = <<>> \/ n > Len(crypto_terms) THEN t
  ELSE SubstituteTerms(
         ReSub(<<WordBoundary>> \o Word(crypto_terms[n][1]) \o <<WordBoundary>>,
               crypto_terms[n][2], t, FALSE), n + 1)

\* for word in self.emphasis_words: re.sub(r'\bword\b', word.upper(), ..., re.IGNORECASE)
RECURSIVE Emphasize(_, _)
Emphasize(t, n) ==
  IF t = <<>> \/ n > Len(emphasis_words) THEN t
  ELSE Emphasize(
         ReSub(<<WordBoundary>> \o Word(emphasis_words[n]) \o <<WordBoundary>>,
               Upper(emphasis_words[n]), t, TRUE), n + 1)

\* TextProcessor.optimize_for_speech(text)
optimize_for_speech(text) ==
  IF Falsy(text) THEN text
  ELSE Emphasize(SubstituteTerms(InsertRhythm(ThinPunctuation(
         NormalizeGreetings(text, 1)), 1), 1), 1)

-----------------------------------------------------------------------------
(* String helpers of parse_script.                                         *)

\* the index before the longest run of characters of S that ends at index j of s
RECURSIVE RunStart(_, _, _)
RunStart(s, j, S) == IF j >= 1 /\ s[j] \in S THEN RunStart(s, j - 1, S) ELSE j

\* str.strip()
Strip(s) == Slice(s, RunEnd(s, 1, Whitespace), RunStart(s, Len(s), Whitespace))

\* str.split(sep): the pieces between the separators; ''.split(sep) is [''].
\* piece is the part of the current piece before index j; the piece ends
\* before the first separator from j on, or with s.
RECURSIVE SplitFrom(_, _, _, _)
SplitFrom(s, j, sep, piece) ==
  LET seps == {k \in j..Len(s) : s[k] = sep} IN
  IF seps = {} THEN <<piece \o Slice(s, j, Len(s))>>
  ELSE LET e == CHOOSE k \in seps : \A m \in seps : k <= m
       IN  <<piece \o Slice(s, j, e - 1)>> \o SplitFrom(s, e + 1, sep, <<>>)

Split(s, sep) == SplitFrom(s, 1, sep, <<>>)

\* sep.join(ls)
RECURSIVE Join(_, _)
Join(ls, sep) ==
  IF ls = <<>> THEN <<>>
  ELSE IF Len(ls) = 1 THEN ls[1]
       ELSE ls[1] \o <<sep>> \o Join(Tail(ls), sep)

\* r'^\d+\.': no whitespace is required after the period
NumberedPattern_NoWhitespace == <<Many(Digit), Lit(".")>>

\* r'^\d+\.\s+'
NumberedPattern == <<Many(Digit), Lit("."), Many(Whitespace)>>

\* re.match(r'^\d+\.\s+', line)
IsNumberedLine(line) == ReMatch(NumberedPattern, line)

\* the truth value of current_news: None is false, a dict with keys is true
Truthy(news) == news # None

\* elif current_section == 'news' and current_news
EntersNewsBranch(section, news) == section = "news" /\ Truthy(news)

\* the outro starts at the first text line after any numbered line
OutroHeuristic_NoThreshold(items, news) == news.content = <<>>

\* if len(news_items) >= 3 and not current_news['content']
OutroHeuristic_AfterThreeItems(items, news) == Len(items) >= 3 /\ news.content = <<>>

\* if len(news_items) >= 1 and not current_news['content']
OutroHeuristic_AfterOneItem(items, news) == Len(items) >= 1 /\ news.content = <<>>

\* if len(news_items) >= 2 and not current_news['content']
OutroHeuristic(items, news) == Len(items) >= 2 /\ news.content = <<>>

\* the body of the last item is read without testing current_news
EvaluatesLastContent_Unguarded(news) == TRUE

\* `current_news and current_news['content']`: the right operand is evaluated
\* only when the left one is true
EvaluatesLastContent(news) == Truthy(news)

\* the last item is never appended after the loop
KeepsLast_Never(news) == FALSE

\* the last item is kept whatever its body
KeepsLast_NoBodyTest(news) == Truthy(news)

\* if current_news and current_news['content']
KeepsLast(news) == Truthy(news) /\ news.content # <<>>

\* the body is rewritten line by line and then joined
OptimizeItem_LineByLine(news) ==
  [title   |-> optimize_for_speech(news.title),
   content |-> Join([k \in 1..Len(news.content) |-> optimize_for_speech(news.content[k])], "\n")]

\* the dict appended to optimized_news for one item of news_items
OptimizeItem(news) ==
  [title   |-> optimize_for_speech(news.title),
   content |-> optimize_for_speech(Join(news.content, "\n"))]

\* the dict parse_script returns, with the rewritten intro under 'original' too
BuildResult_OriginalRewritten(intro, items, outro) ==
  [intro    |-> optimize_for_speech(Join(intro, "\n")),
   news     |-> [k \in 1..Len(items) |-> OptimizeItem(items[k])],
   outro    |-> optimize_for_speech(Join(outro, "\n")),
   original |-> [intro |-> optimize_for_speech(Join(intro, "\n")),
                 news  |-> items,
                 outro |-> Join(outro, "\n")]]

\* the dict parse_script returns
BuildResult(intro, items, outro) ==
  [intro    |-> optimize_for_speech(Join(intro, "\n")),
   news     |-> [k \in 1..Len(items) |-> OptimizeItem(items[k])],
   outro    |-> optimize_for_speech(Join(outro, "\n")),
   original |-> [intro |-> Join(intro, "\n"),
                 news  |-> items,
                 outro |-> Join(outro, "\n")]]

-----------------------------------------------------------------------------
(* The inputs of the model.                                                *)

\* the lines scripts are made of: a blank line, a numbered line, a text line
\* with leading whitespace and a final period, a line that looks numbered
\* but has no whitespace after the period
LinePool ==
  { <<" ">>,
    <<"1", ".", " ", "a">>,
    <<" ", "b", ".">>,
    <<"2", ".", "c", "!">> }

\* the scripts of at most MaxLines lines of LinePool
Scripts ==
  { Join(ls, "\n") : ls \in UNION { [1..n -> LinePool] : n \in 0..MaxLines } }

-----------------------------------------------------------------------------
(* The calls.                                                              *)

\* the caches are empty, the clock reads 0, no file is written, no audio asked
NothingOutside ==
  /\ _RECOMMENDATION_CACHE = <<>>
  /\ _LEGAL_REFERENCE_CACHE = <<>>
  /\ time = 0
  /\ written = <<>>
  /\ files = <<>>
  /\ audio = <<>>

NoSrc == [intro |-> <<>>, news |-> <<>>, outro |-> <<>>, current |-> None]

Init ==
  /\ script \in Scripts
  /\ call \in {"parse_script", "optimize_for_speech"}
  /\ pc = "start"
  /\ lines = <<>>
  /\ i = 1
  /\ current_section = "intro"
  /\ current_news = None
  /\ news_items = <<>>
  /\ intro_lines = <<>>
  /\ outro_lines = <<>>
  /\ src = NoSrc
  /\ result = None
  /\ NothingOutside
  /\ self = NewTextProcessor
  /\ threads = <<>>

\* parse_script, up to the for loop
ParseBegin ==
  /\ pc = "start" /\ call = "parse_script"
  /\ lines' = Split(Strip(script), "\n")
  /\ intro_lines' = <<>>
  /\ news_items' = <<>>
  /\ outro_lines' = <<>>
  /\ current_section' = "intro"
  /\ current_news' = None
  /\ i' = 1
  /\ src' = NoSrc
  /\ pc' = "walk"
  /\ UNCHANGED <<outside, self, threads, script, call, result>>

\* the loop has a next line
InLoop == pc = "walk" /\ i <= Len(lines)

\* the line is used as it is in lines
line_NotStripped == lines[i]

\* line = line.strip()
line == Strip(lines[i])

\* if not line: continue
SkipBlank ==
  /\ InLoop /\ line = <<>>
  /\ i' = i + 1
  /\ UNCHANGED <<outside, self, threads, script, call, pc, lines, current_section, current_news,
                 news_items, intro_lines, outro_lines, src, result>>

\* a numbered line closes the open item and opens a new one
NumberedLine ==
  /\ InLoop /\ line # <<>> /\ IsNumberedLine(line)
  /\ current_section' = "news"
  /\ news_items' = IF Truthy(current_news) THEN Append(news_items, current_news)
                   ELSE news_items
  /\ current_news' = [title |-> line, content |-> <<>>]
  /\ src' = [src EXCEPT
               !.news = IF Truthy(current_news) THEN Append(@, src.current) ELSE @,
               !.current = [title |-> i, content |-> <<>>]]
  /\ i' = i + 1
  /\ UNCHANGED <<outside, self, threads, script, call, pc, lines, intro_lines, outro_lines, result>>

\* a text line after two closed items, the open item having no body yet
OutroStart ==
  /\ InLoop /\ line # <<>> /\ ~IsNumberedLine(line)
  /\ EntersNewsBranch(current_section, current_news)
  /\ OutroHeuristic(news_items, current_news)
  /\ current_section' = "outro"
  /\ outro_lines' = Append(outro_lines, line)
  /\ src' = [src EXCEPT !.outro = Append(@, i)]
  /\ i' = i + 1
  /\ UNCHANGED <<outside, self, threads, script, call, pc, lines, current_news, news_items,
                 intro_lines, result>>

\* a text line of the open item
BodyLine ==
  /\ InLoop /\ line # <<>> /\ ~IsNumberedLine(line)
  /\ EntersNewsBranch(current_section, current_news)
  /\ ~OutroHeuristic(news_items, current_news)
  /\ current_news' = [current_news EXCEPT !.content = Append(@, line)]
  /\ src' = [src EXCEPT !.current.content = Append(@, i)]
  /\ i' = i + 1
  /\ UNCHANGED <<outside, self, threads, script, call, pc, lines, current_section, news_items,
                 intro_lines, outro_lines, result>>

\* elif current_section == 'intro'
IntroLine ==
  /\ InLoop /\ line # <<>> /\ ~IsNumberedLine(line)
  /\ ~EntersNewsBranch(current_section, current_news)
  /\ current_section = "intro"
  /\ intro_lines' = Append(intro_lines, line)
  /\ src' = [src EXCEPT !.intro = Append(@, i)]
  /\ i' = i + 1
  /\ UNCHANGED <<outside, self, threads, script, call, pc, lines, current_section, current_news,
                 news_items, outro_lines, result>>

\* else
OutroLine ==
  /\ InLoop /\ line # <<>> /\ ~IsNumberedLine(line)
  /\ ~EntersNewsBranch(current_section, current_news)
  /\ current_section # "intro"
  /\ outro_lines' = Append(outro_lines, line)
  /\ src' = [src EXCEPT !.outro = Append(@, i)]
  /\ i' = i + 1
  /\ UNCHANGED <<outside, self, threads, script, call, pc, lines, current_section, current_news,
                 news_items, intro_lines, result>>

\* after the loop: the last item, the rewriting of the sections, the return.
\* Subscripting None raises TypeError.
ParseEnd ==
  /\ pc = "walk" /\ i > Len(lines)
  /\ IF EvaluatesLastContent(current_news) /\ current_news = None
     THEN /\ pc' = "raised"
          /\ UNCHANGED <<news_items, src, result>>
     ELSE /\ pc' = "done"
          /\ news_items' = IF KeepsLast(current_news)
                           THEN Append(news_items, current_news) ELSE news_items
          /\ src' = [src EXCEPT
                       !.news = IF KeepsLast(current_news)
                                THEN Append(@, src.current) ELSE @]
          /\ result' = BuildResult(intro_lines, news_items', outro_lines)
  /\ UNCHANGED <<outside, self, threads, script, call, lines, i, current_section, current_news,
                 intro_lines, outro_lines>>

\* a call of optimize_for_speech
OptimizeCall ==
  /\ pc = "start" /\ call = "optimize_for_speech"
  /\ result' = optimize_for_speech(script)
  /\ pc' = "done"
  /\ UNCHANGED <<outside, self, threads, script, call, lines, i, current_section, current_news,
                 news_items, intro_lines, outro_lines, src>>

Next ==
  \/ ParseBegin
  \/ SkipBlank
  \/ NumberedLine
  \/ OutroStart
  \/ BodyLine
  \/ IntroLine
  \/ OutroLine
  \/ ParseEnd
  \/ OptimizeCall

Spec == Init /\ [][Next]_vars

-----------------------------------------------------------------------------
(* Vocabulary of the properties of parse_script.                           *)

\* a call of parse_script has split its argument / has returned
Parsing == call = "parse_script" /\ pc # "start"

Returned == call = "parse_script" /\ pc = "done"

\* the indices of the non-blank lines of the script, and of its numbered lines
NonBlankIdx == {k \in 1..Len(lines) : Strip(lines[k]) # <<>>}

NumberedIdx == {k \in NonBlankIdx : IsNumberedLine(Strip(lines[k]))}

\* the non-blank lines in source order, as indices
RECURSIVE SortedIdx(_)
SortedIdx(S) ==
  IF S = {} THEN <<>>
  ELSE LET m == CHOOSE x \in S : \A y \in S : x <= y
       IN  <<m>> \o SortedIdx(S \ {m})

\* the first non-blank line after line k, or 0
NextNonBlank(k) ==
  IF \E m \in NonBlankIdx : m > k
  THEN CHOOSE m \in NonBlankIdx : m > k /\ \A y \in NonBlankIdx : y > k => m <= y
  ELSE 0

\* the script has exactly n numbered lines, each followed by a body line
WellFormedItems(n) ==
  /\ Cardinality(NumberedIdx) = n
  /\ \A k \in NumberedIdx : NextNonBlank(k) # 0 /\ NextNonBlank(k) \notin NumberedIdx

\* the lines behind the stored lines are the stored lines
SrcAgrees ==
  /\ Len(src.news) = Len(news_items)
  /\ \A k \in 1..Len(news_items) :
       /\ news_items[k].title = Strip(lines[src.news[k].title])
       /\ Len(src.news[k].content) = Len(news_items[k].content)
       /\ \A m \in 1..Len(news_items[k].content) :
            news_items[k].content[m] = Strip(lines[src.news[k].content[m]])
  /\ Len(src.intro) = Len(intro_lines)
  /\ \A m \in 1..Len(intro_lines) : intro_lines[m] = Strip(lines[src.intro[m]])
  /\ Len(src.outro) = Len(outro_lines)
  /\ \A m \in 1..Len(outro_lines) : outro_lines[m] = Strip(lines[src.outro[m]])

-----------------------------------------------------------------------------
(* The properties.                                                         *)

\* C1: a script of exactly 3 well-formed numbered lines, each followed by a
\* body line, is returned as exactly 3 news items, item k being the k-th
\* numbered line.
C1_ThreeItemsReturned ==
  (Returned /\ WellFormedItems(3)) =>
    /\ Len(result.news) = 3
    /\ Len(result.original.news) = 3
    /\ \A k \in 1..3 : src.news[k].title = SortedIdx(NumberedIdx)[k]

\* the kinds of the non-blank lines, in order: "N" numbered, "T" text
LineKinds ==
  [k \in 1..Cardinality(NonBlankIdx) |->
     IF SortedIdx(NonBlankIdx)[k] \in NumberedIdx THEN "N" ELSE "T"]

\* C2: for an intro line, two numbered items with one body line each and a
\* closing line, parse_script returns 2 items, the closing line is the outro
\* and is not in the body of item 2.
C2_ClosingLineInOutro ==
  (Returned /\ LineKinds = <<"T", "N", "T", "N", "T", "T">>) =>
    LET closing == SortedIdx(NonBlankIdx)[6] IN
    /\ Len(result.original.news) = 2
    /\ src.outro = <<closing>>
    /\ result.original.outro = Strip(lines[closing])
    /\ \A m \in 1..Len(src.news[2].content) : src.news[2].content[m] # closing

\* C3: every returned news item has at least one body line.
C3_NoItemWithoutBody ==
  Returned =>
    /\ Len(result.news) = Len(result.original.news)
    /\ \A k \in 1..Len(result.original.news) :
         result.original.news[k].content # <<>>

\* the last non-blank line of the script is a numbered line
EndsWithNumberedLine ==
  NonBlankIdx # {} /\ SortedIdx(NonBlankIdx)[Cardinality(NonBlankIdx)] \in NumberedIdx

\* C4: when the last non-blank line is a numbered line, the returned items
\* do not hold the item of that line: they are the items of the other
\* numbered lines.
C4_TrailingItemDropped ==
  (Returned /\ EndsWithNumberedLine) =>
    LET last == SortedIdx(NonBlankIdx)[Cardinality(NonBlankIdx)] IN
    /\ SrcAgrees
    /\ result.original.news = news_items
    /\ Len(result.news) = Len(news_items)
    /\ \A k \in 1..Len(news_items) : src.news[k].title # last
    /\ Len(news_items) = Cardinality(NumberedIdx) - 1

\* a script ending with a numbered line has returned other items
C4_Witness ==
  Returned /\ EndsWithNumberedLine /\ Len(result.original.news) >= 2

\* C5: the outro section is terminal: once current_section is 'outro' it
\* stays 'outro' at every later line, and every later non-blank line is
\* appended to the outro buffer.
C5_OutroTerminal ==
  [][(Parsing /\ current_section = "outro") =>
       /\ current_section' = "outro"
       /\ (InLoop /\ line # <<>>) => outro_lines' = Append(outro_lines, line)]_vars

\* the source indices of the items: each title, then its body lines
RECURSIVE ItemsIdx(_)
ItemsIdx(items) ==
  IF items = <<>> THEN <<>>
  ELSE <<items[1].title>> \o items[1].content \o ItemsIdx(Tail(items))

\* the source indices of intro, items and outro, listed in that order
ListedIdx == src.intro \o ItemsIdx(src.news) \o src.outro

Increasing(seq) == \A a, b \in 1..Len(seq) : a < b => seq[a] < seq[b]

\* C6: the intro lines, then each returned item's title and body lines, then
\* the outro lines, are lines of the source in their source order, and the
\* items are in source order.
C6_SourceOrderKept ==
  Returned =>
    /\ Increasing(ListedIdx)
    /\ Increasing([k \in 1..Len(src.news) |-> src.news[k].title])

\* the stripped non-blank lines of the script, in order
NonBlankLines ==
  [k \in 1..Cardinality(NonBlankIdx) |-> Strip(lines[SortedIdx(NonBlankIdx)[k]])]

\* C7: a script without a numbered line is returned with every non-blank
\* line in the intro, no item and an empty outro, and the call does not raise.
C7_NoNumberedLineAllIntro ==
  (Parsing /\ NumberedIdx = {}) =>
    /\ pc # "raised"
    /\ Returned =>
         /\ result.original.intro = Join(NonBlankLines, "\n")
         /\ result.original.news = <<>>
         /\ result.news = <<>>
         /\ result.original.outro = <<>>
         /\ result.outro = <<>>

\* a returned script of several text lines, one of them blank, none numbered
C7_Witness ==
  /\ Returned /\ NumberedIdx = {}
  /\ Cardinality(NonBlankIdx) >= 2
  /\ Cardinality(NonBlankIdx) < Len(lines)

\* C8: with fewer than two numbered lines the section is never 'outro' and
\* the returned outro is empty.
C8_FewItemsNoOutro ==
  (Parsing /\ Cardinality(NumberedIdx) < 2) =>
    /\ current_section # "outro"
    /\ outro_lines = <<>>
    /\ Returned => result.outro = <<>> /\ result.original.outro = <<>>

\* a returned script of one numbered line followed by two text lines
C8_Witness ==
  /\ Returned /\ Cardinality(NumberedIdx) = 1
  /\ Len(result.original.news) = 1
  /\ Len(result.original.news[1].content) >= 2

\* C9: the returned sections are the rewritten pre-rewrite sections, one to
\* one: intro, outro, and the title and the newline-joined body of each item.
C9_RewrittenMatchesOriginal ==
  Returned =>
    /\ result.intro = optimize_for_speech(result.original.intro)
    /\ result.outro = optimize_for_speech(result.original.outro)
    /\ Len(result.news) = Len(result.original.news)
    /\ \A k \in 1..Len(result.news) :
         /\ result.news[k].title = optimize_for_speech(result.original.news[k].title)
         /\ result.news[k].content =
              optimize_for_speech(Join(result.original.news[k].content, "\n"))

\* a returned item with a body of two lines that the rewriting joins
C9_Witness ==
  /\ Returned
  /\ \E k \in 1..Len(result.news) :
       /\ Len(result.original.news[k].content) >= 2
       /\ result.news[k].content # Join(result.original.news[k].content, "\n")
       /\ result.news[k].title # result.original.news[k].title

\* C10: for every string (the empty string, blank lines only, lines that
\* look numbered) no call raises: the loop stays within the lines and a call
\* that has returned has returned a dict of sections or a string.
C10_NeverRaises ==
  /\ pc # "raised"
  /\ pc = "walk" => i \in 1..(Len(lines) + 1)
  /\ pc = "done" =>
       IF call = "parse_script"
       THEN DOMAIN result = {"intro", "news", "outro", "original"}
       ELSE DOMAIN result = 1..Len(result)

\* parse_script has returned for a script of blank lines only
C10_Witness ==
  /\ Returned
  /\ script # <<>>
  /\ \A j \in 1..Len(script) : script[j] \in Whitespace
  /\ result.original.intro = <<>>

-----------------------------------------------------------------------------
(* optimize_text of core/utils.py, stage by stage.                         *)

\* str.replace(old, new): left to right, every non-overlapping occurrence
Replace(s, old, new) == ReSub(Word(old), new, s, FALSE)

\* str.lower()
Lower(s) == [k \in 1..Len(s) |-> LowerChar(s[k])]

\* str.capitalize(): the first character in upper case, the others in lower case
Capitalize(s) == [k \in 1..Len(s) |-> IF k = 1 THEN UpperChar(s[k]) ELSE LowerChar(s[k])]

\* text.lower().startswith(prefix)
LowerStartsWith(text, prefix) ==
  Len(text) >= Len(prefix) /\ SubSeq(Lower(text), 1, Len(prefix)) = prefix

\* old in s
Contains(s, old) == \E j \in 1..Len(s) : MatchFrom(Word(old), 1, s, j, FALSE) # 0

\* the two openings optimize_text knows, as <<prefix, replacement>>
introductions ==
  << << <<"e", " ", "a", "í", " ", "c", "a", "m", "b", "a", "d", "a">>,
        <<"E", "A", "Í", "C", "A", "M", "B", "A", "D", "A">> >>,
     << <<"f", "a", "l", "a", " ", "c", "a", "m", "b", "a", "d", "a">>,
        <<"F", "A", "L", "A", "C", "A", "M", "B", "A", "D", "A">> >> >>

\* if text.lower().startswith(...): text = "..." + text[len(...):]  elif ...
ReplaceIntroduction(text) ==
  IF LowerStartsWith(text, introductions[1][1])
  THEN introductions[1][2] \o Slice(text, Len(introductions[1][1]) + 1, Len(text))
  ELSE IF LowerStartsWith(text, introductions[2][1])
       THEN introductions[2][2] \o Slice(text, Len(introductions[2][1]) + 1, Len(text))
       ELSE text

\* the list of the punctuation loop
punctuation ==
  << <<",">>, <<".">>, <<"!">>, <<"?">>, <<".", ".", ".">>, <<";">>, <<":">> >>

\* for char in [...]: text = text.replace(char, '')
RECURSIVE RemovePunctuation(_, _)
RemovePunctuation(t, n) ==
  IF t = <<>> \/ n > Len(punctuation) THEN t
  ELSE RemovePunctuation(Replace(t, punctuation[n], <<>>), n + 1)

\* the dict replacements of optimize_text: the entries of crypto_terms of
\* TextProcessor.__init__, in the same order
replacements == NewTextProcessor.crypto_terms

\* for original, replacement in replacements.items(): text.replace(...)
RECURSIVE ReplaceTerms(_, _)
ReplaceTerms(t, n) ==
  IF t = <<>> \/ n > Len(replacements) THEN t
  ELSE ReplaceTerms(Replace(t, replacements[n][1], replacements[n][2]), n + 1)

\* the list emphasis_words of optimize_text: the words of emphasis_words of
\* TextProcessor.__init__, in the same order
keywords == NewTextProcessor.emphasis_words

\* for word in emphasis_words: if word in text.lower(): the lower-case and the
\* capitalized spelling of the word are replaced by word.upper()
RECURSIVE UppercaseKeywords(_, _)
UppercaseKeywords(t, n) ==
  IF t = <<>> \/ n > Len(keywords) THEN t
  ELSE UppercaseKeywords(
         IF Contains(Lower(t), keywords[n])
         THEN Replace(Replace(t, keywords[n], Upper(keywords[n])),
                      Capitalize(keywords[n]), Upper(keywords[n]))
         ELSE t, n + 1)

\* optimize_text(text)
optimize_text(text) ==
  IF Falsy(text) THEN text
  ELSE UppercaseKeywords(ReplaceTerms(RemovePunctuation(
         ReplaceIntroduction(text), 1), 1), 1)

-----------------------------------------------------------------------------
(* Calls of the rewriter, one stage at a time.  threads[t] holds the locals *)
(* of call t: the function fn, its argument text, its position pc, the     *)
(* working text optimized (in optimize_text, the reassigned text) and the  *)
(* returned value result.                                                   *)

\* the variables of the single call of the segmenter
parse_vars == <<script, call, pc, lines, i, current_section, current_news,
                news_items, intro_lines, outro_lines, src, result>>

\* a call of function f on argument x, before its first statement
NewCall(f, x) ==
  [fn |-> f, text |-> x, pc |-> "start", optimized |-> None, locals |-> None,
   result |-> None]

\* call t runs f and is at position p
At(t, f, p) == threads[t].fn = f /\ threads[t].pc = p

\* the working text is an attribute of the object, which the calls share
Stage_SharedWorkingText(t, p, o) ==
  /\ threads' = [u \in DOMAIN threads |->
                   IF u = t THEN [threads[u] EXCEPT !.pc = p, !.optimized = o]
                   ELSE [threads[u] EXCEPT !.optimized = o]]
  /\ UNCHANGED <<outside, self, parse_vars>>

\* call t moves to position p with working text o; nothing else changes
Stage(t, p, o) ==
  /\ threads' = [threads EXCEPT ![t] = [@ EXCEPT !.pc = p, !.optimized = o]]
  /\ UNCHANGED <<outside, self, parse_vars>>

\* call t returns r; nothing else changes
Return(t, r) ==
  /\ threads' = [threads EXCEPT ![t] = [@ EXCEPT !.pc = "done", !.result = r]]
  /\ UNCHANGED <<outside, self, parse_vars>>

\* optimize_for_speech: if not text: return text
SpeechFalsy(t) ==
  /\ At(t, "optimize_for_speech", "start") /\ Falsy(threads[t].text)
  /\ Return(t, threads[t].text)

\* optimize_for_speech: optimized = text, then the greeting patterns
SpeechGreetings(t) ==
  /\ At(t, "optimize_for_speech", "start") /\ ~Falsy(threads[t].text)
  /\ Stage(t, "greeted", NormalizeGreetings(threads[t].text, 1))

\* optimize_for_speech: the punctuation rewrites come first, on the argument
SpeechPunctuation_First(t) ==
  /\ At(t, "optimize_for_speech", "start") /\ ~Falsy(threads[t].text)
  /\ Stage(t, "thinned", ThinPunctuation(threads[t].text))

\* optimize_for_speech: the punctuation rewrites
SpeechPunctuation(t) ==
  /\ At(t, "optimize_for_speech", "greeted")
  /\ Stage(t, "thinned", ThinPunctuation(threads[t].optimized))

\* optimize_for_speech: the hyphens after the conjunctions
SpeechRhythm(t) ==
  /\ At(t, "optimize_for_speech", "thinned")
  /\ Stage(t, "paced", InsertRhythm(threads[t].optimized, 1))

\* optimize_for_speech: the pronunciation of the terms
SpeechTerms(t) ==
  /\ At(t, "optimize_for_speech", "paced")
  /\ Stage(t, "termed", SubstituteTerms(threads[t].optimized, 1))

\* optimize_for_speech: the emphasis words, and return optimized
SpeechEmphasis(t) ==
  /\ At(t, "optimize_for_speech", "termed")
  /\ Return(t, Emphasize(threads[t].optimized, 1))

\* optimize_text: if not text: return text
TextFalsy(t) ==
  /\ At(t, "optimize_text", "start") /\ Falsy(threads[t].text)
  /\ Return(t, threads[t].text)

\* optimize_text: the introduction
TextIntroduction(t) ==
  /\ At(t, "optimize_text", "start") /\ ~Falsy(threads[t].text)
  /\ Stage(t, "greeted", ReplaceIntroduction(threads[t].text))

\* optimize_text: the punctuation loop
TextPunctuation(t) ==
  /\ At(t, "optimize_text", "greeted")
  /\ Stage(t, "thinned", RemovePunctuation(threads[t].optimized, 1))

\* optimize_text: the replacements loop
TextTerms(t) ==
  /\ At(t, "optimize_text", "thinned")
  /\ Stage(t, "termed", ReplaceTerms(threads[t].optimized, 1))

\* optimize_text: the emphasis loop, and return text
TextEmphasis(t) ==
  /\ At(t, "optimize_text", "termed")
  /\ Return(t, UppercaseKeywords(threads[t].optimized, 1))

RewriteNext ==
  \/ \E t \in DOMAIN threads : SpeechFalsy(t)
  \/ \E t \in DOMAIN threads : SpeechGreetings(t)
  \/ \E t \in DOMAIN threads : SpeechPunctuation(t)
  \/ \E t \in DOMAIN threads : SpeechRhythm(t)
  \/ \E t \in DOMAIN threads : SpeechTerms(t)
  \/ \E t \in DOMAIN threads : SpeechEmphasis(t)
  \/ \E t \in DOMAIN threads : TextFalsy(t)
  \/ \E t \in DOMAIN threads : TextIntroduction(t)
  \/ \E t \in DOMAIN threads : TextPunctuation(t)
  \/ \E t \in DOMAIN threads : TextTerms(t)
  \/ \E t \in DOMAIN threads : TextEmphasis(t)

\* no call of the segmenter is in progress
NoParse ==
  /\ script = <<>>
  /\ call = "none"
  /\ pc = "idle"
  /\ lines = <<>>
  /\ i = 1
  /\ current_section = "intro"
  /\ current_news = None
  /\ news_items = <<>>
  /\ intro_lines = <<>>
  /\ outro_lines = <<>>
  /\ src = NoSrc
  /\ result = None

\* one call of optimize_for_speech or of optimize_text, on None or on a text of T
RewriteInit(T) ==
  /\ NoParse
  /\ NothingOutside
  /\ self = NewTextProcessor
  /\ threads \in [{1} -> {NewCall(f, x) : f \in {"optimize_for_speech", "optimize_text"},
                                           x \in T \cup {NoText}}]

\* the strings of at most n characters of the set A
Strings(A, n) == UNION {[1..m -> A] : m \in 0..n}

\* the texts of at most n words of the set W, joined by single spaces
Phrases(W, n) == {Join(ws, " ") : ws \in Strings(W, n)}

-----------------------------------------------------------------------------
(* Punctuation.                                                            *)

\* a digit, the comma, the period, a space, a rewritten and a removed mark
PunctuationChars == {"1", ",", ".", " ", ";", "!"}

\* the texts of the punctuation properties: every short string of
\* PunctuationChars, a number with groups of three digits and one with groups
\* of one digit
PunctuationTexts ==
  Strings(PunctuationChars, MaxChars)
    \cup {<<"1", ",", "2", "3", "4", ",", "5", "6", "7">>, <<"1", ",", "2", ",", "3">>}

PunctuationInit == RewriteInit(PunctuationTexts)

PunctuationSpec == PunctuationInit /\ [][RewriteNext]_vars

\* C11: thinning the punctuation a second time changes nothing: once a call
\* has thinned its text, the punctuation rules of its function leave the
\* thinned text as it is.
C11_ThinningIdempotent ==
  \A t \in DOMAIN threads :
    threads[t].pc = "thinned" =>
      IF threads[t].fn = "optimize_for_speech"
      THEN ThinPunctuation(threads[t].optimized) = threads[t].optimized
      ELSE RemovePunctuation(threads[t].optimized, 1) = threads[t].optimized

-----------------------------------------------------------------------------
(* Pronunciation of the terms.                                             *)

\* two terms in their canonical casing, in other casings, and inside longer words
TermWords ==
  { <<"t", "o", "k", "e", "n">>,
    <<"T", "o", "k", "e", "n">>,
    <<"t", "o", "k", "e", "n", "s">>,
    <<"m", "y", "t", "o", "k", "e", "n">>,
    <<"B", "i", "t", "c", "o", "i", "n">>,
    <<"b", "i", "t", "c", "o", "i", "n">>,
    <<"B", "I", "T", "C", "O", "I", "N">>,
    <<"B", "i", "t", "c", "o", "i", "n", "s">> }

TermInit == RewriteInit(Phrases(TermWords, MaxWords))

TermSpec == TermInit /\ [][RewriteNext]_vars

\* call t has returned the rewriting of a text
Rewritten(t) == threads[t].pc = "done" /\ ~Falsy(threads[t].text)

\* the words of the argument and of the returned text of call t
InWords(t) == Split(threads[t].text, " ")

OutWords(t) == Split(threads[t].result, " ")

\* the terms of the pronunciation table
Terms == {NewTextProcessor.crypto_terms[n][1] : n \in 1..Len(NewTextProcessor.crypto_terms)}

\* word w holds a term and more letters
EmbedsTerm(w) == \E term \in Terms : w # term /\ Contains(w, term)

\* C12: a term that is part of a longer word is left unsubstituted: a word
\* made of a term and more letters is returned as it is.
C12_WholeWordOnly ==
  \A t \in DOMAIN threads :
    Rewritten(t) =>
      /\ Len(OutWords(t)) = Len(InWords(t))
      /\ \A k \in 1..Len(InWords(t)) :
           EmbedsTerm(InWords(t)[k]) => OutWords(t)[k] = InWords(t)[k]

-----------------------------------------------------------------------------
(* Commas in numbers.                                                      *)

\* the commas of s that stand directly between two digits
DigitCommas(s) ==
  {j \in 2..(Len(s) - 1) : s[j] = "," /\ s[j - 1] \in Digit /\ s[j + 1] \in Digit}

\* s is made of digits and of commas that stand directly between two digits
IsNumber(s) ==
  /\ s # <<>>
  /\ \A j \in 1..Len(s) : s[j] \in Digit \/ j \in DigitCommas(s)

NotComma(c) == c # ","

\* C13: every comma that stood directly between two digits is deleted and
\* nothing is put in its place: a number is returned as its digits, and the
\* returned text holds no comma with a digit on each side.
C13_DigitCommasDeleted ==
  \A t \in DOMAIN threads :
    Rewritten(t) =>
      /\ DigitCommas(threads[t].result) = {}
      /\ IsNumber(threads[t].text) =>
           threads[t].result = SelectSeq(threads[t].text, NotComma)

-----------------------------------------------------------------------------
(* Empty input.                                                            *)

\* C14: the empty string and None are returned unchanged and no rule is
\* applied: a call on such an argument is before its first statement or has
\* returned its argument, and its working text was never assigned.
C14_EmptyReturnedUnchanged ==
  \A t \in DOMAIN threads :
    threads[t].text \in {<<>>, NoText} =>
      /\ threads[t].pc \in {"start", "done"}
      /\ threads[t].optimized = None
      /\ threads[t].pc = "done" => threads[t].result = threads[t].text
      /\ optimize_for_speech(threads[t].text) = threads[t].text
      /\ optimize_text(threads[t].text) = threads[t].text

\* a call of optimize_for_speech has returned None for None
C14_Witness ==
  \E t \in DOMAIN threads :
    /\ threads[t].fn = "optimize_for_speech"
    /\ threads[t].text = NoText
    /\ threads[t].pc = "done"
    /\ threads[t].result = NoText

-----------------------------------------------------------------------------
(* Casing of the terms.                                                    *)

\* the respelling of term w in the pronunciation table
Pronunciation(w) ==
  LET n == CHOOSE m \in 1..Len(NewTextProcessor.crypto_terms) :
             NewTextProcessor.crypto_terms[m][1] = w
  IN  NewTextProcessor.crypto_terms[n][2]

\* word w is a term in a casing that is not the one of the table
OtherCasing(w) == w \notin Terms /\ \E term \in Terms : Lower(w) = Lower(term)

\* C15: the substitution is case-sensitive: a word that is a term in the
\* casing of the table is returned as its respelling, and a word that is a
\* term in another casing is returned as it is.
C15_CaseSensitive ==
  \A t \in DOMAIN threads :
    Rewritten(t) =>
      /\ Len(OutWords(t)) = Len(InWords(t))
      /\ \A k \in 1..Len(InWords(t)) :
           /\ InWords(t)[k] \in Terms => OutWords(t)[k] = Pronunciation(InWords(t)[k])
           /\ OtherCasing(InWords(t)[k]) => OutWords(t)[k] = InWords(t)[k]

\* optimize_for_speech has returned a text with a respelled term next to the
\* same term in another casing, left as it was
C15_Witness ==
  \E t \in DOMAIN threads :
    /\ Rewritten(t) /\ threads[t].fn = "optimize_for_speech"
    /\ \E k \in 1..(Len(InWords(t)) - 1) :
         /\ InWords(t)[k] = <<"B", "i", "t", "c", "o", "i", "n">>
         /\ OutWords(t)[k] = <<"B", "i", "t", "c", "o", "i", "m">>
         /\ InWords(t)[k + 1] = <<"b", "i", "t", "c", "o", "i", "n">>
         /\ OutWords(t)[k + 1] = <<"b", "i", "t", "c", "o", "i", "n">>

-----------------------------------------------------------------------------
(* Emphasis.                                                               *)

\* two emphasis words in several casings and inside longer words
EmphasisWords ==
  { <<"m", "u", "i", "t", "o">>,
    <<"M", "u", "i", "t", "o">>,
    <<"m", "U", "i", "T", "o">>,
    <<"m", "u", "i", "t", "o", "s">>,
    <<"a", "l", "t", "a">>,
    <<"S", "a", "l", "t", "a", "m">> }

EmphasisInit == RewriteInit(Phrases(EmphasisWords, MaxWords))

EmphasisSpec == EmphasisInit /\ [][RewriteNext]_vars

\* the words of the emphasis list
Emphasized ==
  {NewTextProcessor.emphasis_words[n] : n \in 1..Len(NewTextProcessor.emphasis_words)}

\* word w holds an emphasis word, in any casing, and more letters
EmbedsEmphasis(w) ==
  Lower(w) \notin Emphasized /\ \E word \in Emphasized : Contains(Lower(w), word)

\* C16: a word that is an emphasis word in any casing is returned fully
\* uppercased, and a longer word that holds an emphasis word is returned as
\* it is.
C16_EmphasisUppercased ==
  \A t \in DOMAIN threads :
    Rewritten(t) =>
      /\ Len(OutWords(t)) = Len(InWords(t))
      /\ \A k \in 1..Len(InWords(t)) :
           /\ Lower(InWords(t)[k]) \in Emphasized => OutWords(t)[k] = Upper(InWords(t)[k])
           /\ EmbedsEmphasis(InWords(t)[k]) => OutWords(t)[k] = InWords(t)[k]

-----------------------------------------------------------------------------
(* Greetings.                                                              *)

\* greeting phrases in several casings, and another word
GreetingParts ==
  { <<"E", " ", "a", "í", " ", "c", "a", "m", "b", "a", "d", "a">>,
    <<"F", "A", "L", "A", " ", "c", "a", "m", "b", "a", "d", "a">>,
    <<"f", "a", "l", "a", " ", "g", "a", "l", "e", "r", "a">>,
    <<"o", "i">> }

GreetingInit == RewriteInit(Phrases(GreetingParts, MaxWords))

GreetingSpec == GreetingInit /\ [][RewriteNext]_vars

\* len(re.findall(p, s)): the non-overlapping matches of p in s from index j on
RECURSIVE CountFrom(_, _, _, _)
CountFrom(p, s, j, ignorecase) ==
  IF j > Len(s) THEN 0
  ELSE LET e == MatchFrom(p, 1, s, j, ignorecase) IN
       IF e > j THEN 1 + CountFrom(p, s, e, ignorecase)
       ELSE CountFrom(p, s, j + 1, ignorecase)

Greetings == NewTextProcessor.greeting_patterns

\* the occurrences of greeting phrases in s, in any casing
GreetingCount(s) ==
  CountFrom(Greetings[1][1], s, 1, TRUE) + CountFrom(Greetings[2][1], s, 1, TRUE)
    + CountFrom(Greetings[3][1], s, 1, TRUE) + CountFrom(Greetings[4][1], s, 1, TRUE)

\* the occurrences of fused tokens in s
FusedCount(s) ==
  CountFrom(Word(Greetings[1][2]), s, 1, FALSE) + CountFrom(Word(Greetings[2][2]), s, 1, FALSE)
    + CountFrom(Word(Greetings[3][2]), s, 1, FALSE) + CountFrom(Word(Greetings[4][2]), s, 1, FALSE)

\* s begins with a greeting phrase in any casing / with a fused token
BeginsWithGreeting(s) ==
  \E n \in 1..Len(Greetings) : MatchFrom(Greetings[n][1], 1, s, 1, TRUE) # 0

BeginsWithFused(s) ==
  \E n \in 1..Len(Greetings) : MatchFrom(Word(Greetings[n][2]), 1, s, 1, FALSE) # 0

\* C17 as stated: a text that begins with a greeting phrase, in any casing,
\* is returned with that phrase fused, and every later greeting phrase of
\* the text is returned unfused.
C17_OnlyOpeningFused ==
  \A t \in DOMAIN threads :
    (Rewritten(t) /\ BeginsWithGreeting(threads[t].text)) =>
      /\ BeginsWithFused(threads[t].result)
      /\ FusedCount(threads[t].result) = 1
      /\ GreetingCount(threads[t].result) = GreetingCount(threads[t].text) - 1

\* s begins, in any casing, with one of the two openings optimize_text knows
BeginsWithIntroduction(s) ==
  LowerStartsWith(s, introductions[1][1]) \/ LowerStartsWith(s, introductions[2][1])

\* C17, amended: optimize_for_speech fuses every greeting phrase of the text,
\* the opening one and the later ones, and returns the fused tokens;
\* optimize_text fuses 'e aí cambada' or 'fala cambada' where it opens the
\* text, in any casing, and no other greeting phrase.
C17_FusedByFunction ==
  \A t \in DOMAIN threads :
    LET text == threads[t].text
        greeted == threads[t].optimized
    IN
    /\ (threads[t].fn = "optimize_for_speech" /\ threads[t].pc = "greeted") =>
         /\ GreetingCount(greeted) = 0
         /\ FusedCount(greeted) = GreetingCount(text) + FusedCount(text)
    /\ (threads[t].fn = "optimize_for_speech" /\ Rewritten(t)) =>
         FusedCount(threads[t].result) >= GreetingCount(text) + FusedCount(text)
    /\ (threads[t].fn = "optimize_text" /\ threads[t].pc = "greeted") =>
         IF BeginsWithIntroduction(text)
         THEN /\ BeginsWithFused(greeted)
              /\ FusedCount(greeted) = FusedCount(text) + 1
              /\ GreetingCount(greeted) = GreetingCount(text) - 1
         ELSE greeted = text
    /\ (threads[t].fn = "optimize_text" /\ Rewritten(t) /\ BeginsWithIntroduction(text)) =>
         BeginsWithFused(threads[t].result)

\* optimize_for_speech has returned a text that began with a greeting phrase
\* and held another one later, both fused
C17_Witness ==
  \E t \in DOMAIN threads :
    /\ threads[t].fn = "optimize_for_speech" /\ Rewritten(t)
    /\ BeginsWithGreeting(threads[t].text)
    /\ GreetingCount(threads[t].text) = 2
    /\ BeginsWithFused(threads[t].result)
    /\ FusedCount(threads[t].result) = 2

-----------------------------------------------------------------------------
(* Rhythm.                                                                 *)

\* conjunctions between words, two of them in a row, one in upper case, one
\* at the end of a line, and the empty part that doubles a space
RhythmParts ==
  { <<"a", " ", "e">>,
    <<"e", " ", "b">>,
    <<"M", "A", "S">>,
    <<"e", "n", "t", "ã", "o", "\n", "c">>,
    <<>> }

RhythmInit == RewriteInit(Phrases(RhythmParts, MaxWords))

RhythmSpec == RhythmInit /\ [][RewriteNext]_vars

\* the index after the conjunction that starts at index j of s between two
\* whitespace characters, in any casing, or 0
ConjunctionEnd(s, j) ==
  IF \E n \in 1..Len(rhythm_words) :
       MatchFrom(<<OneOf(Whitespace)>> \o Word(rhythm_words[n]) \o <<OneOf(Whitespace)>>,
                 1, s, j - 1, TRUE) # 0
  THEN j + Len(rhythm_words[CHOOSE n \in 1..Len(rhythm_words) :
                 MatchFrom(<<OneOf(Whitespace)>> \o Word(rhythm_words[n]) \o <<OneOf(Whitespace)>>,
                           1, s, j - 1, TRUE) # 0])
  ELSE 0

\* s from index j on, with a hyphen put after every conjunction that stands
\* between two whitespace characters, and nothing else changed
RECURSIVE WithHyphensFrom(_, _)
WithHyphensFrom(s, j) ==
  IF j > Len(s) THEN <<>>
  ELSE IF j > 1 /\ ConjunctionEnd(s, j) # 0
       THEN Slice(s, j, ConjunctionEnd(s, j) - 1) \o <<"-">>
              \o WithHyphensFrom(s, ConjunctionEnd(s, j))
       ELSE <<s[j]>> \o WithHyphensFrom(s, j + 1)

\* C18: the rhythm rule only adds a hyphen directly after each conjunction
\* that stands between whitespace: the returned text is the text with these
\* hyphens, the whitespace and the letters of the conjunctions being the ones
\* of the text, and every such conjunction has its hyphen.
C18_OnlyHyphensAdded ==
  \A t \in DOMAIN threads :
    (threads[t].fn = "optimize_for_speech" /\ Rewritten(t)) =>
      threads[t].result = WithHyphensFrom(threads[t].text, 1)

-----------------------------------------------------------------------------
(* Lines that look numbered.                                               *)

\* a numbered line, a bare number, a number with a parenthesis, a number
\* with no whitespace after its period, a blank line
ItemLinePool ==
  { <<"1", ".", " ", "a">>,
    <<"2", ".", " ">>,
    <<"1", ")", " ", "c">>,
    <<"3", ".", "d">>,
    <<>> }

ItemScripts ==
  { Join(ls, "\n") : ls \in Strings(ItemLinePool, MaxItemLines) }

ItemInit ==
  /\ script \in ItemScripts
  /\ call \in {"parse_script", "optimize_for_speech"}
  /\ pc = "start"
  /\ lines = <<>>
  /\ i = 1
  /\ current_section = "intro"
  /\ current_news = None
  /\ news_items = <<>>
  /\ intro_lines = <<>>
  /\ outro_lines = <<>>
  /\ src = NoSrc
  /\ result = None
  /\ NothingOutside
  /\ self = NewTextProcessor
  /\ threads = <<>>

ItemSpec == ItemInit /\ [][Next]_vars

\* l starts with digits and is not digits, a period and a whitespace character
Malformed(l) ==
  /\ l # <<>>
  /\ l[1] \in Digit
  /\ LET e == RunEnd(l, 1, Digit) IN
     ~(e + 1 <= Len(l) /\ l[e] = "." /\ l[e + 1] \in Whitespace)

\* the next line of the loop is malformed
AtMalformed == InLoop /\ Malformed(line)

\* the step keeps the items and opens none
NoItemOpened ==
  /\ news_items' = news_items
  /\ \/ current_news' = current_news
     \/ /\ current_news # None
        /\ current_news' = [current_news EXCEPT !.content = Append(@, line)]

\* C19 as stated: a line that starts with digits and does not match the
\* numbered-item pattern opens no item, changes no section and raises no error.
C19_MalformedChangesNothing ==
  [][AtMalformed =>
       /\ NoItemOpened
       /\ current_section' = current_section
       /\ pc' # "raised"]_vars

\* C19, amended: such a line is handled as a text line: it opens no item and
\* raises no error, it is stored once, in the intro, in the body of the open
\* item or in the outro, and the section changes only from 'news' to 'outro',
\* when two items are closed and the open item has no body.
C19_MalformedIsText ==
  [][AtMalformed =>
       /\ NoItemOpened
       /\ pc' = "walk" /\ i' = i + 1
       /\ IF current_section = "news" /\ Len(news_items) >= 2 /\ current_news.content = <<>>
          THEN /\ current_section' = "outro"
               /\ outro_lines' = Append(outro_lines, line)
               /\ intro_lines' = intro_lines /\ current_news' = current_news
          ELSE /\ current_section' = current_section
               /\ CASE current_section = "intro" ->
                         /\ intro_lines' = Append(intro_lines, line)
                         /\ outro_lines' = outro_lines /\ current_news' = current_news
                    [] current_section = "news" ->
                         /\ current_news'.content = Append(current_news.content, line)
                         /\ intro_lines' = intro_lines /\ outro_lines' = outro_lines
                    [] current_section = "outro" ->
                         /\ outro_lines' = Append(outro_lines, line)
                         /\ intro_lines' = intro_lines /\ current_news' = current_news]_vars

\* a call has returned an item whose body holds a bare number and a number
\* with a parenthesis, and no line of the script raised
C19_Witness ==
  /\ Returned
  /\ \E k \in 1..Len(result.original.news) :
       /\ <<"2", ".">> \in {result.original.news[k].content[m] :
                              m \in 1..Len(result.original.news[k].content)}
       /\ <<"1", ")", " ", "c">> \in {result.original.news[k].content[m] :
                              m \in 1..Len(result.original.news[k].content)}

-----------------------------------------------------------------------------
(* Calls in progress at the same time on one TextProcessor.  The locals of *)
(* a call of parse_script are the record threads[t].locals.                *)

\* parse_script, up to the for loop
BeforeLoop(script_content) ==
  [lines           |-> Split(Strip(script_content), "\n"),
   i               |-> 1,
   current_section |-> "intro",
   current_news    |-> None,
   news_items      |-> <<>>,
   intro_lines     |-> <<>>,
   outro_lines     |-> <<>>]

\* one iteration of the for loop on the locals st
WalkLine(st) ==
  LET l    == Strip(st.lines[st.i])
      next == [st EXCEPT !.i = @ + 1]
  IN  IF l = <<>> THEN next
      ELSE IF IsNumberedLine(l)
      THEN [next EXCEPT
              !.current_section = "news",
              !.news_items = IF Truthy(st.current_news)
                             THEN Append(@, st.current_news) ELSE @,
              !.current_news = [title |-> l, content |-> <<>>]]
      ELSE IF EntersNewsBranch(st.current_section, st.current_news)
      THEN IF OutroHeuristic(st.news_items, st.current_news)
           THEN [next EXCEPT !.current_section = "outro",
                             !.outro_lines = Append(@, l)]
           ELSE [next EXCEPT !.current_news.content = Append(@, l)]
      ELSE IF st.current_section = "intro"
      THEN [next EXCEPT !.intro_lines = Append(@, l)]
      ELSE [next EXCEPT !.outro_lines = Append(@, l)]

\* the for loop, from the locals st on
RECURSIVE WalkAll(_)
WalkAll(st) == IF st.i > Len(st.lines) THEN st ELSE WalkAll(WalkLine(st))

\* parse_script, after the for loop
AfterLoop(st) ==
  BuildResult(st.intro_lines,
              IF KeepsLast(st.current_news)
              THEN Append(st.news_items, st.current_news) ELSE st.news_items,
              st.outro_lines)

\* TextProcessor.parse_script(script_content)
parse_script(script_content) == AfterLoop(WalkAll(BeforeLoop(script_content)))

\* the locals of call t become st; nothing else changes
Locals(t, p, st) ==
  /\ threads' = [threads EXCEPT ![t] = [@ EXCEPT !.pc = p, !.locals = st]]
  /\ UNCHANGED <<outside, self, parse_vars>>

CallParseBegin(t) ==
  /\ At(t, "parse_script", "start")
  /\ Locals(t, "walk", BeforeLoop(threads[t].text))

CallParseLine(t) ==
  /\ At(t, "parse_script", "walk")
  /\ threads[t].locals.i <= Len(threads[t].locals.lines)
  /\ Locals(t, "walk", WalkLine(threads[t].locals))

CallParseEnd(t) ==
  /\ At(t, "parse_script", "walk")
  /\ threads[t].locals.i > Len(threads[t].locals.lines)
  /\ Return(t, AfterLoop(threads[t].locals))

ConcurrentNext ==
  \/ \E t \in DOMAIN threads : SpeechFalsy(t)
  \/ \E t \in DOMAIN threads : SpeechGreetings(t)
  \/ \E t \in DOMAIN threads : SpeechPunctuation(t)
  \/ \E t \in DOMAIN threads : SpeechRhythm(t)
  \/ \E t \in DOMAIN threads : SpeechTerms(t)
  \/ \E t \in DOMAIN threads : SpeechEmphasis(t)
  \/ \E t \in DOMAIN threads : CallParseBegin(t)
  \/ \E t \in DOMAIN threads : CallParseLine(t)
  \/ \E t \in DOMAIN threads : CallParseEnd(t)

\* the arguments of the concurrent calls: the empty text, a script, a sentence
ConcurrentTexts ==
  { <<>>,
    <<"o", "i", "\n", "1", ".", " ", "t", "o", "k", "e", "n", "\n", "a", ",", " ", "b">>,
    <<"f", "a", "l", "a", " ", "g", "a", "l", "e", "r", "a", " ", "e", " ", "m", "e", "g", "a", "!">> }

\* Callers calls, each of parse_script or optimize_for_speech, none started
ConcurrentInit ==
  /\ NoParse
  /\ NothingOutside
  /\ self = NewTextProcessor
  /\ threads \in [1..Callers -> {NewCall(f, x) : f \in {"parse_script", "optimize_for_speech"},
                                                 x \in ConcurrentTexts}]

ConcurrentSpec == ConcurrentInit /\ [][ConcurrentNext]_vars

\* what call t returns when it is the only call
Alone(t) ==
  IF threads[t].fn = "parse_script" THEN parse_script(threads[t].text)
  ELSE optimize_for_speech(threads[t].text)

\* C20: under every interleaving of the calls, a call that has returned has
\* returned what it returns alone, and the rule tables are the ones __init__
\* set.
C20_CallsIndependent ==
  /\ self = NewTextProcessor
  /\ \A t \in DOMAIN threads :
       threads[t].pc = "done" => threads[t].result = Alone(t)

\* a call has returned a rewritten text while another call, started before
\* the return, is in the middle of its loop or of its rules
C20_Witness ==
  \E t, u \in DOMAIN threads :
    /\ t # u
    /\ threads[t].pc = "done" /\ threads[t].text # <<>>
    /\ IF threads[t].fn = "parse_script" THEN threads[t].result.news # <<>>
       ELSE threads[t].result # threads[t].text
    /\ threads[u].text # <<>>
    /\ \/ threads[u].fn = "parse_script" /\ threads[u].pc = "walk" /\ threads[u].locals.i > 1
       \/ threads[u].fn = "optimize_for_speech" /\ threads[u].pc \in {"thinned", "paced"}

-----------------------------------------------------------------------------
(* The in-memory caches of backend/app/core/cache.py.  Every function of   *)
(* the module is one step; the clock advances between the steps.           *)

\* RECOMMENDATION_CACHE_TTL = 3600  # 1 hora
RECOMMENDATION_CACHE_TTL == 3600

\* LEGAL_REFERENCE_CACHE_TTL = 86400  # 24 horas
LEGAL_REFERENCE_CACHE_TTL == 86400

\* the clock of the model runs for MaxHours times the TTL of a recommendation
MaxHours == 1

\* the readings of the clock: every multiple of the TTL, and the second after
Instants == {h * RECOMMENDATION_CACHE_TTL + e : h \in 0..MaxHours, e \in {0, 1}}

\* the users, the lists of recommendations (a dict is modelled by its id),
\* the queries and the source types of the model
Users == {"ana", "rui"}

Recommendations == {<<>>, <<[id |-> 1]>>}

Queries == {<<"l", "e", "i">>}

SourceTypes == {None, <<"s", "t", "f">>}

\* Optional[List[dict]]: None, or the list, held in a tuple of one element so
\* that the empty list is not None
Some(x) == <<x>>

\* d.get(k)
Get(d, k) == IF k \in DOMAIN d THEN d[k] ELSE None

\* del d[k]
Del(d, k) == [x \in DOMAIN d \ {k} |-> d[x]]

\* d[k] = e
Put(d, k, e) == [x \in DOMAIN d \cup {k} |-> IF x = k THEN e ELSE d[x]]

\* a function of the module was called with args and has returned r
Called(f, args, r) ==
  /\ call' = f
  /\ script' = args
  /\ result' = r
  /\ pc' = "done"
  /\ UNCHANGED <<lines, i, current_section, current_news, news_items,
                 intro_lines, outro_lines, src, self, threads, files, audio>>

\* time.time() - cache_entry["timestamp"] >= RECOMMENDATION_CACHE_TTL
Expired_AtTTL(cache_entry) == time - cache_entry.timestamp >= RECOMMENDATION_CACHE_TTL

\* time.time() - cache_entry["timestamp"] > RECOMMENDATION_CACHE_TTL
Expired(cache_entry) == time - cache_entry.timestamp > RECOMMENDATION_CACHE_TTL

get_cached_recommendations(user_id) ==
  LET cache_entry == Get(_RECOMMENDATION_CACHE, user_id) IN
  /\ IF cache_entry = None
     THEN /\ Called("get_cached_recommendations", user_id, None)
          /\ UNCHANGED _RECOMMENDATION_CACHE
     ELSE IF Expired(cache_entry)
          THEN /\ _RECOMMENDATION_CACHE' = Del(_RECOMMENDATION_CACHE, user_id)
               /\ Called("get_cached_recommendations", user_id, None)
          ELSE /\ Called("get_cached_recommendations", user_id, Some(cache_entry.data))
               /\ UNCHANGED _RECOMMENDATION_CACHE
  /\ UNCHANGED <<_LEGAL_REFERENCE_CACHE, time, written>>

cache_recommendations(user_id, recommendations) ==
  /\ _RECOMMENDATION_CACHE' =
       Put(_RECOMMENDATION_CACHE, user_id, [timestamp |-> time, data |-> recommendations])
  /\ written' = Put(written, user_id, [at |-> time, data |-> recommendations])
  /\ Called("cache_recommendations", user_id, None)
  /\ UNCHANGED <<_LEGAL_REFERENCE_CACHE, time>>

\* cache_key = f"{query}:{source_type}" if source_type else query
cache_key(query, source_type) ==
  IF source_type # <<>> THEN query \o <<":">> \o source_type ELSE query

get_cached_legal_references(query, source_type) ==
  LET cache_entry == Get(_LEGAL_REFERENCE_CACHE, cache_key(query, source_type)) IN
  /\ IF cache_entry = None
     THEN /\ Called("get_cached_legal_references", cache_key(query, source_type), None)
          /\ UNCHANGED _LEGAL_REFERENCE_CACHE
     ELSE IF time - cache_entry.timestamp > LEGAL_REFERENCE_CACHE_TTL
          THEN /\ _LEGAL_REFERENCE_CACHE' =
                    Del(_LEGAL_REFERENCE_CACHE, cache_key(query, source_type))
               /\ Called("get_cached_legal_references", cache_key(query, source_type), None)
          ELSE /\ Called("get_cached_legal_references", cache_key(query, source_type),
                         Some(cache_entry.data))
               /\ UNCHANGED _LEGAL_REFERENCE_CACHE
  /\ UNCHANGED <<_RECOMMENDATION_CACHE, time, written>>

cache_legal_references(query, results, source_type) ==
  /\ _LEGAL_REFERENCE_CACHE' =
       Put(_LEGAL_REFERENCE_CACHE, cache_key(query, source_type),
           [timestamp |-> time, data |-> results])
  /\ Called("cache_legal_references", cache_key(query, source_type), None)
  /\ UNCHANGED <<_RECOMMENDATION_CACHE, time, written>>

clear_user_cache(user_id) ==
  /\ _RECOMMENDATION_CACHE' = Del(_RECOMMENDATION_CACHE, user_id)
  /\ written' = Del(written, user_id)
  /\ Called("clear_user_cache", user_id, None)
  /\ UNCHANGED <<_LEGAL_REFERENCE_CACHE, time>>

clear_all_caches ==
  /\ _RECOMMENDATION_CACHE' = <<>>
  /\ _LEGAL_REFERENCE_CACHE' = <<>>
  /\ written' = <<>>
  /\ Called("clear_all_caches", None, None)
  /\ UNCHANGED time

\* time passes: time.time() reads a later instant
Tick ==
  /\ \E t \in Instants : t > time /\ time' = t
  /\ UNCHANGED <<parse_vars, self, threads, _RECOMMENDATION_CACHE,
                 _LEGAL_REFERENCE_CACHE, written, files, audio>>

CacheNext ==
  \/ \E u \in Users : get_cached_recommendations(u)
  \/ \E u \in Users, r \in Recommendations : cache_recommendations(u, r)
  \/ \E q \in Queries, s \in SourceTypes : get_cached_legal_references(q, s)
  \/ \E q \in Queries, s \in SourceTypes : cache_legal_references(q, <<[id |-> 1]>>, s)
  \/ \E u \in Users : clear_user_cache(u)
  \/ clear_all_caches
  \/ Tick

\* the module is imported: both caches are empty
CacheInit ==
  /\ NoParse
  /\ NothingOutside
  /\ self = NewTextProcessor
  /\ threads = <<>>

CacheSpec == CacheInit /\ [][CacheNext]_vars

\* what the history says a read of user_id returns now: the list of the last
\* write, unless the user was cleared since or the write is older than the TTL
LastCached(user_id) ==
  IF user_id \in DOMAIN written /\ time - written[user_id].at <= RECOMMENDATION_CACHE_TTL
  THEN Some(written[user_id].data)
  ELSE None

\* C21: get_cached_recommendations returns the list of the user's last
\* cache_recommendations when the read is made within
\* RECOMMENDATION_CACHE_TTL seconds of that write, and None for a user never
\* cached, cleared since by clear_user_cache or clear_all_caches, or cached
\* more than the TTL ago; after a read of an entry older than the TTL the
\* user has no entry in the cache.
C21_CachedWithinTTL ==
  [][\A u \in Users :
       get_cached_recommendations(u) =>
         /\ result' = LastCached(u)
         /\ (u \in DOMAIN _RECOMMENDATION_CACHE /\ LastCached(u) = None) =>
              u \notin DOMAIN _RECOMMENDATION_CACHE']_vars

\* a read made exactly RECOMMENDATION_CACHE_TTL seconds after the second
\* write of a user has returned the second list
C21_Witness ==
  /\ call = "get_cached_recommendations" /\ pc = "done"
  /\ script \in DOMAIN written
  /\ time - written[script].at = RECOMMENDATION_CACHE_TTL
  /\ written[script].at > 0
  /\ result = Some(written[script].data)
  /\ result # Some(<<>>)

-----------------------------------------------------------------------------
(* split_long_text.                                                        *)

\* the greatest max_length of the model
MaxLength == 3

\* [.!?]
SentenceEnd == {".", "!", "?"}

\* re.split(r'(?<=[.!?])\s+', text): the text is cut at every run of
\* whitespace that follows a character of SentenceEnd
RECURSIVE SplitSentencesFrom(_, _, _)
SplitSentencesFrom(s, j, piece) ==
  IF j > Len(s) THEN <<piece>>
  ELSE IF s[j] \in Whitespace /\ j > 1 /\ s[j - 1] \in SentenceEnd
       THEN <<piece>> \o SplitSentencesFrom(s, RunEnd(s, j, Whitespace), <<>>)
       ELSE SplitSentencesFrom(s, j + 1, Append(piece, s[j]))

\* one turn of `for sentence in sentences`, on st = [chunks, current_chunk]
AddSentence(st, sentence, max_length) ==
  IF Len(st.current_chunk) + Len(sentence) <= max_length
  THEN [st EXCEPT !.current_chunk = @ \o sentence \o <<" ">>]
  ELSE [chunks        |-> Append(st.chunks, Strip(st.current_chunk)),
        current_chunk |-> sentence \o <<" ">>]

RECURSIVE AddSentences(_, _, _)
AddSentences(st, sentences, max_length) ==
  IF sentences = <<>> THEN st
  ELSE AddSentences(AddSentence(st, Head(sentences), max_length), Tail(sentences),
                    max_length)

split_long_text(text, max_length) ==
  IF Len(text) <= max_length THEN <<text>>
  ELSE LET st == AddSentences([chunks |-> <<>>, current_chunk |-> <<>>],
                              SplitSentencesFrom(text, 1, <<>>), max_length)
       IN  IF st.current_chunk # <<>>
           THEN Append(st.chunks, Strip(st.current_chunk))
           ELSE st.chunks

\* a call of split_long_text returns
SplitCall(t) ==
  /\ At(t, "split_long_text", "start")
  /\ Return(t, split_long_text(threads[t].text, threads[t].locals.max_length))

\* the texts of at most MaxChars characters among a letter, a period, a space
\* and a newline
SplitTexts == Strings({"a", ".", " ", "\n"}, MaxChars)

\* one call of split_long_text on a text and a positive max_length
SplitInit ==
  /\ NoParse
  /\ NothingOutside
  /\ self = NewTextProcessor
  /\ threads \in [{1} -> {[NewCall("split_long_text", x) EXCEPT
                             !.locals = [max_length |-> m]] :
                          x \in SplitTexts, m \in 1..MaxLength}]

SplitSpec == SplitInit /\ [][\E t \in DOMAIN threads : SplitCall(t)]_vars

\* C22: every chunk split_long_text returns is at most max_length characters
\* long.
C22_ChunksWithinMax ==
  \A t \in DOMAIN threads :
    (threads[t].fn = "split_long_text" /\ threads[t].pc = "done") =>
      \A k \in 1..Len(threads[t].result) :
        Len(threads[t].result[k]) <= threads[t].locals.max_length

-----------------------------------------------------------------------------
(* Further properties of the walk of parse_script.                         *)

\* the loop reads a non-blank line that is not numbered
TextLineRead == InLoop /\ line # <<>> /\ ~IsNumberedLine(line)

\* C23: a non-numbered, non-blank line read while an item is open is appended
\* to the outro, the section being 'outro' afterwards, exactly when the open
\* item has no body line and the items list holds at least two items; in
\* every other case with an open item and section 'news' the line is
\* appended to the body of the open item and to nothing else.
C23_OutroExactlyWhen ==
  [][(TextLineRead /\ current_news # None) =>
       LET two_closed_no_body == Len(news_items) >= 2 /\ current_news.content = <<>> IN
       /\ (outro_lines' = Append(outro_lines, line) /\ current_section' = "outro")
            <=> two_closed_no_body
       /\ (~two_closed_no_body /\ current_section = "news") =>
            /\ current_news' = [current_news EXCEPT !.content = Append(@, line)]
            /\ outro_lines' = outro_lines
            /\ intro_lines' = intro_lines
            /\ news_items' = news_items
            /\ current_section' = "news"]_vars

\* the outro was started by the line after the third numbered line, the two
\* items before it having received a body line each
C23_Witness ==
  /\ Parsing /\ current_section = "outro"
  /\ Len(news_items) = 2
  /\ news_items[1].content # <<>>
  /\ news_items[2].content # <<>>
  /\ current_news.content = <<>>
  /\ Len(outro_lines) = 1

\* the index of the first numbered line, or the index after the last line
FirstNumbered ==
  IF NumberedIdx = {} THEN Len(lines) + 1
  ELSE CHOOSE k \in NumberedIdx : \A m \in NumberedIdx : k <= m

\* the stripped non-blank lines before the first numbered line, in order
LinesBeforeItems ==
  LET before == SortedIdx({k \in NonBlankIdx : k < FirstNumbered})
  IN  [k \in 1..Len(before) |-> Strip(lines[before[k]])]

\* C24: no step of the walk sets the section back to 'intro'; once a numbered
\* line has been read the section is not 'intro'; and the returned
\* pre-rewrite intro is the stripped non-blank lines that precede the first
\* numbered line, in order, joined by newlines.
C24_IntroNeverReentered ==
  /\ [][(Parsing /\ current_section # "intro") => current_section' # "intro"]_vars
  /\ []((pc = "walk" /\ \E k \in NumberedIdx : k < i) => current_section # "intro")
  /\ [](Returned => result.original.intro = Join(LinesBeforeItems, "\n"))

\* a script with two intro lines, a numbered line and a text line after it
\* has returned
C24_Witness ==
  /\ Returned
  /\ Len(LinesBeforeItems) = 2
  /\ NumberedIdx # {}
  /\ \E k \in NonBlankIdx \ NumberedIdx : k > FirstNumbered
  /\ result.original.intro # result.intro

-----------------------------------------------------------------------------
(* The order of the stages of the rewriter.                                *)

\* a greeting phrase cut by a period, a term cut by an exclamation mark, an
\* emphasis word and a conjunction
OrderParts ==
  { <<"f", "a", "l", "a", ".">>,
    <<"c", "a", "m", "b", "a", "d", "a", "!">>,
    <<"B", "i", "t", "!", "c", "o", "i", "n">>,
    <<"m", "u", "i", "t", "o">>,
    <<"e">> }

OrderSpec == RewriteInit(Phrases(OrderParts, MaxWords)) /\ [][RewriteNext]_vars

\* the positions of a call, in the order of the stages of the claim
StageOrder(f) ==
  IF f = "optimize_for_speech"
  THEN <<"start", "greeted", "thinned", "paced", "termed", "done">>
  ELSE <<"start", "greeted", "thinned", "termed", "done">>

\* the position after position p
StageAfter(f, p) ==
  LET order == StageOrder(f)
  IN  order[(CHOOSE k \in 1..Len(order) : order[k] = p) + 1]

\* the rewrite of working text w that a call of f has made when it reaches p
StageRewrite(f, p, w) ==
  IF f = "optimize_for_speech"
  THEN CASE p = "greeted" -> NormalizeGreetings(w, 1)
         [] p = "thinned" -> ThinPunctuation(w)
         [] p = "paced"   -> InsertRhythm(w, 1)
         [] p = "termed"  -> SubstituteTerms(w, 1)
         [] p = "done"    -> Emphasize(w, 1)
  ELSE CASE p = "greeted" -> ReplaceIntroduction(w)
         [] p = "thinned" -> RemovePunctuation(w, 1)
         [] p = "termed"  -> ReplaceTerms(w, 1)
         [] p = "done"    -> UppercaseKeywords(w, 1)

\* the working text of a call: its argument, its local, its returned value
Working(c) ==
  IF c.pc = "start" THEN c.text ELSE IF c.pc = "done" THEN c.result ELSE c.optimized

\* C25: every step of a call of the rewriter is the next stage of the fixed
\* order (greetings, then all the punctuation, then, in optimize_for_speech,
\* the hyphens, then the pronunciations, then the emphasis) applied to the
\* working text the stage before left: no stage is skipped or run twice.
\* The only other step is the return of an empty or None text as it is.
C25_StagesInOrder ==
  [][\A t \in DOMAIN threads :
       (threads[t].fn \in {"optimize_for_speech", "optimize_text"}
          /\ threads'[t] # threads[t]) =>
         IF Falsy(threads[t].text)
         THEN threads[t].pc = "start" /\ threads'[t].pc = "done"
              /\ threads'[t].result = threads[t].text
         ELSE /\ threads[t].pc # "done"
              /\ threads'[t].pc = StageAfter(threads[t].fn, threads[t].pc)
              /\ Working(threads'[t]) =
                   StageRewrite(threads[t].fn, threads'[t].pc, Working(threads[t]))]_vars

\* optimize_for_speech has returned for a text that the stages in another
\* order rewrite differently: with the punctuation removed first the
\* greeting would be fused
C25_Witness ==
  \E t \in DOMAIN threads :
    /\ threads[t].fn = "optimize_for_speech" /\ threads[t].pc = "done"
    /\ threads[t].result # threads[t].text
    /\ threads[t].result #
         Emphasize(SubstituteTerms(InsertRhythm(
           NormalizeGreetings(ThinPunctuation(threads[t].text), 1), 1), 1), 1)

-----------------------------------------------------------------------------
(* Further properties of the sections parse_script returns.                *)

\* a stored line is not empty and has no whitespace at either end
CleanLine(l) == l # <<>> /\ l[1] \notin Whitespace /\ l[Len(l)] \notin Whitespace

\* a section joined by newlines is empty or made of clean lines
CleanSection(s) ==
  s = <<>> \/ \A k \in 1..Len(Split(s, "\n")) : CleanLine(Split(s, "\n")[k])

\* C26: in the pre-rewrite sections parse_script returns (intro, the title
\* and every body line of each item, outro) no line is empty or made of
\* whitespace only, and no line begins or ends with whitespace.
C26_BlankLinesDiscarded ==
  Returned =>
    /\ CleanSection(result.original.intro)
    /\ CleanSection(result.original.outro)
    /\ \A k \in 1..Len(result.original.news) :
         /\ CleanLine(result.original.news[k].title)
         /\ \A m \in 1..Len(result.original.news[k].content) :
              CleanLine(result.original.news[k].content[m])

\* a returned script with a blank line after its first line, an intro, and
\* an item whose body line is indented in the script
C26_Witness ==
  /\ Returned
  /\ \E k \in 2..Len(lines) : k \notin NonBlankIdx
  /\ result.original.intro # <<>>
  /\ Len(result.original.news) >= 1
  /\ \E m \in 1..Len(src.news[1].content) :
       lines[src.news[1].content[m]] # result.original.news[1].content[m]

\* C27: in every result of parse_script the items at index 2 or later
\* (0-based; the third item and the following ones) have an empty body, in
\* the pre-rewrite items and in the rewritten ones; and during the walk,
\* once two items are closed, the open item has no body line.
C27_OnlyTwoBodies ==
  /\ (call = "parse_script" /\ pc = "walk" /\ Len(news_items) >= 2
        /\ current_news # None) =>
       current_news.content = <<>>
  /\ Returned =>
       \A k \in 3..Len(result.original.news) :
         /\ result.original.news[k].content = <<>>
         /\ result.news[k].content = <<>>

\* a script of four numbered lines, the third followed by a text line, has
\* returned: three items, the text line in the outro
C27_Witness ==
  /\ Returned
  /\ Len(result.original.news) = 3
  /\ result.original.news[2].content # <<>>
  /\ \E m \in 1..Len(src.outro) : src.outro[m] = src.news[3].title + 1

-----------------------------------------------------------------------------
(* generate_script, and parse_script on the script it returns.             *)

\* the greatest num_items of the model
MaxItems == 4

\* str(n) of a natural number: its decimal digits
RECURSIVE Str(_)
Str(n) ==
  LET digits == <<"0", "1", "2", "3", "4", "5", "6", "7", "8", "9">>
  IN  IF n < 10 THEN <<digits[n + 1]>> ELSE Str(n \div 10) \o <<digits[(n % 10) + 1]>>

\* for i in range(1, num_items + 1): the two lines of item i, from item k on
RECURSIVE TemplateItems(_, _, _)
TemplateItems(k, num_items, topic) ==
  IF k > num_items THEN <<>>
  ELSE Str(k) \o <<".", " ", "N", "o", "t", "í", "c", "i", "a", " ">> \o Str(k) \o <<" ", "s", "o", "b", "r", "e", " ">> \o topic \o <<"\n">>
       \o <<" ", " ", " ", "D", "e", "t", "a", "l", "h", "e", "s", " ", "d",
         "a", " ", "n", "o", "t", "í", "c", "i", "a", " ">>
       \o Str(k) \o <<".", ".", ".", "\n", "\n">>
       \o TemplateItems(k + 1, num_items, topic)

generate_script(topic, num_items) ==
  <<"E", " ", "a", "í", " ", "c", "a", "m", "b", "a", "d", "a", "!", " ",
    "T", "ô", " ", "d", "e", " ", "v", "o", "l", "t", "a", " ", "c", "o",
    "m", " ", "m", "a", "i", "s", " ", "u", "m", "a", " ", "R", "a", "p",
    "i", "d", "i", "n", "h", "a", " ", "C", "r", "i", "p", "t", "o", "!",
    "\n", "\n">>
  \o <<"H", "o", "j", "e", " ", "v", "a", "m", "o", "s", " ", "f", "a", "l",
    "a", "r", " ", "s", "o", "b", "r", "e", " ">>
  \o topic \o <<".", "\n", "\n">>
  \o TemplateItems(1, num_items, topic)
  \o <<"É", " ", "i", "s", "s", "o", " ", "c", "a", "m", "b", "a", "d", "a",
    "!", " ", "S", "e", " ", "g", "o", "s", "t", "o", "u", ",", " ", "d",
    "e", "i", "x", "a", " ", "o", " ", "l", "i", "k", "e", " ", "e", " ",
    "c", "o", "m", "p", "a", "r", "t", "i", "l", "h", "a", " ", "c", "o",
    "m", " ", "a", " ", "g", "a", "l", "e", "r", "a", ".", " ", "A", "t",
    "é", " ", "a", " ", "p", "r", "ó", "x", "i", "m", "a", " ", "R", "a",
    "p", "i", "d", "i", "n", "h", "a", " ", "C", "r", "i", "p", "t", "o",
    "!">>

\* the topics of the model: a term of the rewriter, an emphasis word, and a
\* topic that begins like a numbered line
Topics ==
  { <<"D", "e", "F", "i">>,
    <<"a", "l", "t", "a">>,
    <<"1", ".", " ", "e">> }

\* generate_script is called with a topic and num_items
GenerateInit ==
  /\ NoParse
  /\ NothingOutside
  /\ self = NewTextProcessor
  /\ threads \in [{1} -> {[NewCall("generate_script", topic) EXCEPT
                             !.locals = [num_items |-> n]] :
                          topic \in Topics, n \in 0..MaxItems}]

\* generate_script returns the template, which is passed to parse_script
GenerateScript ==
  /\ pc = "idle"
  /\ \E t \in DOMAIN threads :
       /\ At(t, "generate_script", "start")
       /\ threads' = [threads EXCEPT ![t] =
            [@ EXCEPT !.pc = "done",
                      !.result = generate_script(threads[t].text,
                                                 threads[t].locals.num_items)]]
       /\ script' = threads'[t].result
  /\ call' = "parse_script"
  /\ pc' = "start"
  /\ UNCHANGED <<outside, self, lines, i, current_section, current_news, news_items,
                 intro_lines, outro_lines, src, result>>

GenerateNext ==
  \/ GenerateScript
  \/ ParseBegin
  \/ SkipBlank
  \/ NumberedLine
  \/ OutroStart
  \/ BodyLine
  \/ IntroLine
  \/ OutroLine
  \/ ParseEnd

GenerateSpec == GenerateInit /\ [][GenerateNext]_vars

\* the line 'Detalhes da notícia k...' and the closing line, as parse_script
\* stores them
DetailsLine(k) ==
  <<"D", "e", "t", "a", "l", "h", "e", "s", " ", "d", "a", " ", "n", "o",
    "t", "í", "c", "i", "a", " ">> \o Str(k) \o <<".", ".", ".">>

ClosingLine ==
  <<"É", " ", "i", "s", "s", "o", " ", "c", "a", "m", "b", "a", "d", "a",
    "!", " ", "S", "e", " ", "g", "o", "s", "t", "o", "u", ",", " ", "d",
    "e", "i", "x", "a", " ", "o", " ", "l", "i", "k", "e", " ", "e", " ",
    "c", "o", "m", "p", "a", "r", "t", "i", "l", "h", "a", " ", "c", "o",
    "m", " ", "a", " ", "g", "a", "l", "e", "r", "a", ".", " ", "A", "t",
    "é", " ", "a", " ", "p", "r", "ó", "x", "i", "m", "a", " ", "R", "a",
    "p", "i", "d", "i", "n", "h", "a", " ", "C", "r", "i", "p", "t", "o",
    "!">>

\* C28: for every topic and every num_items >= 1, parse_script of
\* generate_script(topic, num_items) returns exactly num_items items, item k
\* with the line 'Detalhes da notícia k...' as its body, and an outro that
\* is the closing line alone.
C28_TemplateRoundTrip ==
  \A t \in DOMAIN threads :
    (threads[t].fn = "generate_script" /\ threads[t].locals.num_items >= 1
       /\ Returned) =>
      /\ Len(result.original.news) = threads[t].locals.num_items
      /\ Len(result.news) = threads[t].locals.num_items
      /\ \A k \in 1..Len(result.original.news) :
           result.original.news[k].content = <<DetailsLine(k)>>
      /\ result.original.outro = ClosingLine

\* the source lines stored in a section, and the non-blank ones stored nowhere
StoredIdx == {ListedIdx[k] : k \in 1..Len(ListedIdx)}

LostIdx == NonBlankIdx \ StoredIdx

-----------------------------------------------------------------------------
(* CloneIA.generate_rapidinha and CloneIA.generate_for_heygen (main.py):    *)
(* the text is saved, rewritten if asked, and handed to the audio           *)
(* generator.  threads[t] holds the call: text is the argument, optimized   *)
(* the local optimized_text, locals the other arguments, the api key of the *)
(* audio generator and the local audio_result.                              *)

CloneCalls == {"generate_rapidinha", "generate_for_heygen"}

\* the texts handed to CloneIA
CloneTexts ==
  Phrases({ <<"f", "a", "l", "a", ".">>, <<"B", "i", "t", "c", "o", "i", "n">>,
            <<"e">> }, MaxWords)

\* output_prefix after lines 81-83 / 187-189: the one given, or a name made
\* from the clock
OutputPrefix(c) ==
  IF c.locals.output_prefix = <<>>
  THEN <<IF c.fn = "generate_rapidinha" THEN "rapidinha" ELSE "heygen", time>>
  ELSE c.locals.output_prefix

\* os.path.join(dir, f"{output_prefix}{suffix}")
Path(dir, c, suffix) == <<dir, OutputPrefix(c), suffix>>

\* AudioGenerator.generate_audio: what the call received, and the text it
\* goes on with after line 93 (None when it returned at line 87)
generate_audio_OptimizeIgnored(text, output_path, optimize, dry_run, api_key) ==
  [text |-> text, output_path |-> output_path, optimize |-> optimize,
   dry_run |-> dry_run,
   spoken |-> IF ~api_key /\ ~dry_run THEN None ELSE Some(optimize_text(text))]

generate_audio(text, output_path, optimize, dry_run, api_key) ==
  [text |-> text, output_path |-> output_path, optimize |-> optimize,
   dry_run |-> dry_run,
   spoken |-> IF ~api_key /\ ~dry_run THEN None
              ELSE Some(IF optimize THEN optimize_text(text) ELSE text)]

\* one call of generate_rapidinha or of generate_for_heygen
CloneInit ==
  /\ NoParse
  /\ NothingOutside
  /\ self = NewTextProcessor
  /\ threads \in [{1} -> {[NewCall(f, x) EXCEPT
                             !.locals = [optimize_text |-> o, output_prefix |-> p,
                                         dry_run |-> d, api_key |-> k,
                                         generate_video |-> v,
                                         audio_result |-> None]] :
                          f \in CloneCalls, x \in CloneTexts, o \in BOOLEAN,
                          p \in {<<>>, <<"e", "p">>}, d \in BOOLEAN,
                          k \in BOOLEAN, v \in BOOLEAN}]

\* Step 1: the original text is written to {output_prefix}.txt
SaveText(t) ==
  /\ threads[t].fn \in CloneCalls
  /\ threads[t].pc = "start"
  /\ files' = Put(files, Path("text", threads[t], ".txt"), threads[t].text)
  /\ threads' = [threads EXCEPT ![t] = [@ EXCEPT !.pc = "saved"]]
  /\ UNCHANGED <<_RECOMMENDATION_CACHE, _LEGAL_REFERENCE_CACHE, time, written,
                 audio, self, parse_vars>>

\* Step 2: optimized_text is the rewritten text, saved to
\* {output_prefix}_optimized.txt, or the text itself
OptimizeText(t) ==
  /\ threads[t].fn \in CloneCalls
  /\ threads[t].pc = "saved"
  /\ IF threads[t].locals.optimize_text
     THEN /\ threads' = [threads EXCEPT ![t] =
                [@ EXCEPT !.pc = "optimized",
                          !.optimized = optimize_for_speech(threads[t].text)]]
          /\ files' = Put(files, Path("text", threads[t], "_optimized.txt"),
                          threads'[t].optimized)
     ELSE /\ threads' = [threads EXCEPT ![t] =
                [@ EXCEPT !.pc = "optimized", !.optimized = threads[t].text]]
          /\ files' = files
  /\ UNCHANGED <<_RECOMMENDATION_CACHE, _LEGAL_REFERENCE_CACHE, time, written,
                 audio, self, parse_vars>>

\* Step 3: generate_audio(optimized_text, audio_path, optimize=False,
\* dry_run=dry_run); the request to the API succeeds or fails
GenerateAudio(t) ==
  /\ threads[t].fn \in CloneCalls
  /\ threads[t].pc = "optimized"
  /\ LET c == threads[t]
         audio_path == Path("audio", c, ".mp3")
         received == generate_audio(c.optimized, audio_path, FALSE,
                                    c.locals.dry_run, c.locals.api_key)
     IN  /\ audio' = Append(audio, received)
         /\ \E ok \in BOOLEAN :
              threads' = [threads EXCEPT ![t] =
                [@ EXCEPT !.pc = "audio",
                          !.locals = [c.locals EXCEPT !.audio_result =
                             IF received.spoken = None THEN None
                             ELSE IF c.locals.dry_run \/ ok THEN Some(audio_path)
                             ELSE None]]]
  /\ UNCHANGED <<_RECOMMENDATION_CACHE, _LEGAL_REFERENCE_CACHE, time, written,
                 files, self, parse_vars>>

\* the rest of the call: the early return when the audio failed, else Step 4
\* (the video, or the HeyGen instructions file) and the returned paths
CloneReturn(t) ==
  /\ threads[t].fn \in CloneCalls
  /\ threads[t].pc = "audio"
  /\ LET c == threads[t]
         text_path == Path("text", c, ".txt")
         optimized_path == IF c.locals.optimize_text
                           THEN Some(Path("text", c, "_optimized.txt")) ELSE None
         audio_result == c.locals.audio_result
         heygen_path == Path("text", c, "_heygen.txt")
     IN  IF c.fn = "generate_rapidinha"
         THEN /\ threads' = [threads EXCEPT ![t] =
                   [@ EXCEPT !.pc = "done",
                             !.result =
                                [text |-> text_path, optimized |-> optimized_path,
                                 audio |-> audio_result,
                                 video |-> IF audio_result # None
                                              /\ c.locals.generate_video
                                              /\ ~c.locals.dry_run
                                           THEN Some(Path("video", c, ".mp4"))
                                           ELSE None]]]
              /\ files' = files
         ELSE IF audio_result = None
         THEN /\ threads' = [threads EXCEPT ![t] =
                   [@ EXCEPT !.pc = "done",
                             !.result =
                                [text |-> text_path, optimized |-> optimized_path,
                                 audio |-> None]]]
              /\ files' = files
         ELSE /\ threads' = [threads EXCEPT ![t] =
                   [@ EXCEPT !.pc = "done",
                             !.result =
                                [text |-> text_path, optimized |-> optimized_path,
                                 audio |-> audio_result,
                                 heygen_instructions |-> heygen_path]]]
              /\ files' = Put(files, heygen_path,
                              <<"=== HeyGen Instructions ===", audio_result>>)
  /\ UNCHANGED <<_RECOMMENDATION_CACHE, _LEGAL_REFERENCE_CACHE, time, written,
                 audio, self, parse_vars>>

CloneNext ==
  \/ \E t \in DOMAIN threads : SaveText(t)
  \/ \E t \in DOMAIN threads : OptimizeText(t)
  \/ \E t \in DOMAIN threads : GenerateAudio(t)
  \/ \E t \in DOMAIN threads : CloneReturn(t)

CloneSpec == CloneInit /\ [][CloneNext]_vars

\* C30: in generate_rapidinha and generate_for_heygen the text is rewritten at
\* most once.  The audio generator is called once, after the text was saved:
\* with optimize_text=True it receives exactly optimize_for_speech(text), with
\* optimize_text=False the text unchanged, in both cases with optimize=False,
\* so the text it goes on with is the text it received; and from Step 1 on
\* the file {output_prefix}.txt holds the unmodified input.
C30_RewrittenAtMostOnce ==
  \A t \in DOMAIN threads :
    threads[t].fn \in CloneCalls =>
      LET c == threads[t]
          text_path == Path("text", c, ".txt")
          expected == IF c.locals.optimize_text
                      THEN optimize_for_speech(c.text) ELSE c.text
      IN  /\ c.pc # "start" =>
               text_path \in DOMAIN files /\ files[text_path] = c.text
          /\ c.pc \in {"start", "saved", "optimized"} => audio = <<>>
          /\ c.pc \in {"audio", "done"} =>
               /\ Len(audio) = 1
               /\ audio[1].text = expected
               /\ audio[1].optimize = FALSE
               /\ audio[1].spoken \in {None, Some(expected)}

\* a finished call with optimize_text=True on a text that optimize_for_speech
\* changes and that optimize_text would change again: the audio generator
\* went on with the text rewritten once, and the text file holds the input
C30_Witness ==
  \E t \in DOMAIN threads :
    /\ threads[t].fn \in CloneCalls
    /\ threads[t].pc = "done"
    /\ threads[t].locals.optimize_text
    /\ Len(audio) = 1
    /\ audio[1].spoken = Some(optimize_for_speech(threads[t].text))
    /\ audio[1].text # threads[t].text
    /\ optimize_text(audio[1].text) # audio[1].text
    /\ files[Path("text", threads[t], ".txt")] = threads[t].text

=============================================================================
